---- MODULE Spec2Model ----
(***************************************************************************)
(* Model of the PAROL6 commander (src/commander): the 100 Hz control loop  *)
(* of commander.py, the command classes of commands.py, the acknowledgment *)
(* path of network_handler.py and the command queue.                       *)
(*                                                                         *)
(* One cycle of the loop is a sequence of phases, and `pc` is the loop's   *)
(* position in the cycle:                                                  *)
(*   "start" -> "processing" -> "execution" -> "serial" -> "start" ...     *)
(* ("start" is the top of the while loop: reconnection and network         *)
(* intake).  `pc = "exited"` is the state after an exception has left the  *)
(* loop body.                                                              *)
(*                                                                         *)
(* Python indices are 0-based: At(a, i) reads a[i] of the source.          *)
(* Python None is modelled by None (command ids, addresses) and by the     *)
(* record NoCommand (active_command).                                      *)
(***************************************************************************)
EXTENDS Integers, Sequences, FiniteSets, TLC

VARIABLES
    pc,                      \* position of the loop in its cycle
    ser_open,                \* ser is not None and ser.is_open
    datagrams,               \* number of datagrams the clients have sent so far
    taken,                   \* ids of the tracked datagrams receive_commands() has returned
    objects,                 \* number of command objects constructed so far
    incoming_command_buffer, \* deque of (cmd_id, message, addr)
    last_command_age,        \* whether current_time - last_command_time is "within" or "beyond" COMMAND_COOLDOWN_S
    command_queue,           \* CommandQueue: the queued command objects, head first
    command_id_map,          \* command object -> (cmd_id, addr)
    active_command,          \* the running command, or NoCommand
    active_command_id,       \* its id, or None
    e_stop_active,           \* the software E-stop flag
    status_bound,            \* the module-level name `status` is bound
    recording_enabled,
    Command_out, Speed_out, Position_out, InOut_out, Gripper_data_out,
    Position_in, Homed_in, InOut_in, Gripper_data_in,
    acks,                    \* every datagram send_ack has sent, in order
    responses,               \* every GET_* response sent, in order
    last_frame,              \* the last outbound frame packed
    cycle,                   \* what this cycle has done so far (observation only)
    scanner,                 \* the globals of Get_data, the inbound byte scanner
    wire,                    \* a value on its way through the byte conversions
    tracker,                 \* the client's LazyCommandTracker and its two threads
    bridge                   \* the USB bridge: its receive loop, its worker thread and their queue

vars == <<pc, ser_open, datagrams, taken, objects, incoming_command_buffer,
          last_command_age, command_queue, command_id_map, active_command,
          active_command_id, e_stop_active, status_bound, recording_enabled,
          Command_out, Speed_out, Position_out, InOut_out, Gripper_data_out,
          Position_in, Homed_in, InOut_in, Gripper_data_in, acks, responses, last_frame, cycle,
          scanner, wire, tracker, bridge>>

\* the variables of the byte level and of the client: while the loop is
\* modelled with whole feedback frames they stay as they are at startup
codec_vars == <<scanner, wire, tracker, bridge>>

(***************************************************************************)
(* Bounds of the model                                                     *)
(***************************************************************************)
\* datagrams the clients send in one run
MaxDatagrams == 2
\* datagrams receive_commands() returns in one cycle
MaxBatch == 1

(***************************************************************************)
(* Program constants                                                       *)
(***************************************************************************)
None == -1
\* float('nan'), a number that compares false with every number
NaN == -2
\* INTERVAL_S, in milliseconds; durations are whole milliseconds
INTERVAL_S == 10
max_size == 100
max_trajectory_commands == 10

At(a, i) == a[i + 1]
SetAt(a, i, v) == [a EXCEPT ![i + 1] = v]
Zeros6 == <<0, 0, 0, 0, 0, 0>>

(***************************************************************************)
(* Kinematics collaborator (lib/kinematics/robot_model.py): unit           *)
(* conversion and static joint limits.  Angles are whole degrees.          *)
(***************************************************************************)
StepsPerDeg == 10
JointLimitDeg == 90
DEG2STEPS(angle, j) == angle * StepsPerDeg
InJointLimits(angles) ==
    \A j \in 0..5 : -JointLimitDeg <= At(angles, j) /\ At(angles, j) <= JointLimitDeg

\* int(): truncation toward zero
Trunc(n, d) == IF n >= 0 THEN n \div d ELSE -((-n) \div d)

\* rp.tools.trajectory.jtraj(q0, q1, n).q[k], k = 0..n-1: the quintic
\* 6 s^5 - 15 s^4 + 10 s^3 = s^3 (6 s^2 - 15 s + 10) between q0 and q1,
\* s = k / (n - 1), in steps.  QuinticNum is the quintic in thousandths,
\* computed in thousandths so that 200 samples stay within 32 bits.
QuinticNum(k, m) ==
    LET s == (k * 1000) \div m
        s2 == (s * s) \div 1000
        s3 == (s2 * s) \div 1000
    IN  (s3 * (6 * s2 - 15 * s + 10000)) \div 1000
jtraj(q0, q1, n) ==
    [k1 \in 1..n |->
        [j1 \in 1..6 |->
            IF n = 1 THEN q0[j1]
            ELSE q0[j1] + Trunc((q1[j1] - q0[j1]) * QuinticNum(k1 - 1, n - 1), 1000)]]

(***************************************************************************)
(* Command classes (src/commander/commands.py).  Every command object is a *)
(* record of the same shape; `obj` is the object's identity (the key of    *)
(* command_id_map).  `prepared` and `stepped` observe the calls made on   *)
(* the object: prepare_for_execution has returned, execute_step has been   *)
(* called.  `prepare_calls` counts the calls of prepare_for_execution,     *)
(* `prepared_with` is the position array the last one received, and        *)
(* `enqueued_with` the feedback position of the cycle that queued the      *)
(* command.                                                                *)
(***************************************************************************)
BlankCommand ==
    [obj |-> 0, kind |-> "None", is_valid |-> FALSE, is_finished |-> FALSE,
     state |-> "", start_cmd_counter |-> 0, timeout_counter |-> 0,
     command_step |-> 0, trajectory_steps |-> <<>>,
     target_angles |-> Zeros6, duration |-> None, velocity_percent |-> None,
     trajectory_deg |-> <<>>, output |-> 0, io_state |-> FALSE, index |-> 0,
     action |-> "", wait_counter |-> 0, target_position |-> 0, speed |-> 0,
     current |-> 0,
     prepared |-> FALSE, stepped |-> FALSE,
     prepare_calls |-> 0, prepared_with |-> <<>>, enqueued_with |-> <<>>]

NoCommand == BlankCommand

\* HomeCommand.__init__
HomeStartCycles == 10
HomeTimeoutCycles == 2000
HomeCommand(o) ==
    [BlankCommand EXCEPT !.obj = o, !.kind = "Home", !.is_valid = TRUE,
                         !.state = "START",
                         !.start_cmd_counter = HomeStartCycles,
                         !.timeout_counter = HomeTimeoutCycles]

\* MoveJointCommand.__init__: only the static joint limits are validated
MoveJointCommand(o, target_angles, duration, velocity_percent) ==
    [BlankCommand EXCEPT !.obj = o, !.kind = "MoveJoint",
                         !.target_angles = target_angles,
                         !.duration = duration,
                         !.velocity_percent = velocity_percent,
                         !.is_valid = InJointLimits(target_angles)]

\* ExecuteTrajectoryCommand.__init__
ExecuteTrajectoryCommand(o, trajectory_deg, duration) ==
    [BlankCommand EXCEPT !.obj = o, !.kind = "ExecuteTrajectory",
                         !.trajectory_deg = trajectory_deg,
                         !.duration = duration,
                         !.is_valid = /\ Len(trajectory_deg) > 0
                                      /\ \A w \in 1..Len(trajectory_deg) :
                                            InJointLimits(trajectory_deg[w])]

\* SetIOCommand.__init__ with the two outputs' indices exchanged
SetIOCommandSwapped(o, output, io_state) ==
    [BlankCommand EXCEPT !.obj = o, !.kind = "SetIO", !.output = output,
                         !.io_state = io_state,
                         !.index = IF output = 1 THEN 3 ELSE 2,
                         !.is_valid = output \in {1, 2}]

\* SetIOCommand.__init__
SetIOCommand(o, output, io_state) ==
    [BlankCommand EXCEPT !.obj = o, !.kind = "SetIO", !.output = output,
                         !.io_state = io_state,
                         !.index = IF output = 1 THEN 2 ELSE 3,
                         !.is_valid = output \in {1, 2}]

\* GripperCommand.__init__; the parser passes None for the actions NONE and
\* MOVE, which the constructor reads as 'move' (`action if action else`:
\* the falsy action is the empty string here)
GripperTimeoutCycles == 1000
CalibrateWaitCycles == 200
GripperCommand(o, action, position, speed, current) ==
    LET act == IF action = "" THEN "move" ELSE action
    IN  [BlankCommand EXCEPT
            !.obj = o, !.kind = "Gripper", !.action = act, !.state = "START",
            !.timeout_counter = GripperTimeoutCycles,
            !.target_position = IF act = "move" THEN position ELSE 0,
            !.speed = IF act = "move" THEN speed ELSE 0,
            !.current = IF act = "move" THEN current ELSE 0,
            !.wait_counter = IF act = "calibrate" THEN CalibrateWaitCycles ELSE 0,
            !.is_valid = IF act = "move"
                         THEN /\ 0 <= position /\ position <= 255
                              /\ 0 <= speed /\ speed <= 255
                              /\ 100 <= current /\ current <= 1000
                         ELSE act = "calibrate"]

\* hasattr(command, 'prepare_for_execution')
HasPrepare(c) == c.kind \in {"MoveJoint", "ExecuteTrajectory"}

\* the default trajectory length of MoveJoint without duration and speed
DefaultCommandLen == 200

\* the velocity path of MoveJointCommand.prepare_for_execution: the number
\* of samples of the trapezoidal profile of the slowest joint (0 when no
\* joint has to move, else at least two control intervals); np.arange raises
\* for a percentage that is not a number, which leaves the command invalid
VelocitySamples(initial, target, velocity_percent) ==
    LET far == {j \in 1..6 : target[j] # initial[j]}
    IN  IF far = {} THEN 0 ELSE 2

\* MoveJointCommand.prepare_for_execution(current_position_in)
MoveJointPrepare(c, current_position_in) ==
    LET target == [j1 \in 1..6 |-> DEG2STEPS(c.target_angles[j1], j1 - 1)]
    IN  IF c.duration # None /\ c.duration > 0
        THEN LET command_len == c.duration \div INTERVAL_S
                 traj == jtraj(current_position_in, target, command_len)
             IN  [c EXCEPT !.trajectory_steps = traj,
                           !.is_valid = (traj # <<>>),
                           !.prepared = TRUE]
        ELSE IF c.velocity_percent # None
        THEN LET n == VelocitySamples(current_position_in, target, c.velocity_percent)
             IN  IF c.velocity_percent = NaN
                 THEN [c EXCEPT !.is_valid = FALSE, !.prepared = TRUE]
                 ELSE IF n = 0
                 THEN [c EXCEPT !.is_finished = TRUE, !.prepared = TRUE]
                 ELSE [c EXCEPT !.trajectory_steps = jtraj(current_position_in, target, n),
                                !.prepared = TRUE]
        ELSE [c EXCEPT !.trajectory_steps =
                            jtraj(current_position_in, target, DefaultCommandLen),
                       !.prepared = TRUE]

\* ExecuteTrajectoryCommand.prepare_for_execution(current_position_in)
ExecuteTrajectoryPrepare(c, current_position_in) ==
    [c EXCEPT !.trajectory_steps =
                  [w \in 1..Len(c.trajectory_deg) |->
                      [j1 \in 1..6 |-> DEG2STEPS(c.trajectory_deg[w][j1], j1 - 1)]],
              !.prepared = TRUE]

\* a variant that promotes the command without preparing it
PrepareSkipped(c, current_position_in) == c

prepare_for_execution(c, current_position_in) ==
    LET d == IF c.kind = "MoveJoint" THEN MoveJointPrepare(c, current_position_in)
             ELSE ExecuteTrajectoryPrepare(c, current_position_in)
    IN  [d EXCEPT !.prepare_calls = @ + 1, !.prepared_with = current_position_in]

(***************************************************************************)
(* execute_step.  `inp` holds the arrays a command reads (Position_in,     *)
(* Homed_in, InOut_in), `out` the arrays it writes (Command_out,           *)
(* Speed_out, Position_out, InOut_out, Gripper_data_out).  The result is   *)
(* the command object after the call, the returned flag and the arrays.    *)
(***************************************************************************)
StepResult(c, done, out) ==
    [cmd |-> [c EXCEPT !.stepped = TRUE], done |-> done, out |-> out]

\* a variant of HomeCommand.execute_step that does not wait for the robot
\* to clear a homed flag
HomeExecuteStepSkipsUnhomed(c, inp, out) ==
    IF c.is_finished THEN StepResult(c, TRUE, out)
    ELSE IF c.state = "START"
    THEN LET n == c.start_cmd_counter - 1
         IN  StepResult([c EXCEPT !.start_cmd_counter = n,
                                  !.state = IF n <= 0 THEN "WAITING_FOR_HOMED"
                                            ELSE "START"],
                        FALSE, [out EXCEPT !.Command_out = 100])
    ELSE LET fin == \A j \in 0..5 : At(inp.Homed_in, j) = 1
         IN  StepResult([c EXCEPT !.is_finished = fin], fin,
                        [out EXCEPT !.Command_out = 255,
                                    !.Speed_out = IF fin THEN Zeros6 ELSE @])

\* HomeCommand.execute_step with the timeout of WAITING_FOR_UNHOMED ending the
\* command one call early
HomeExecuteStepEarlyTimeout(c, inp, out) ==
    IF c.is_finished THEN StepResult(c, TRUE, out)
    ELSE IF c.state = "START"
    THEN LET n == c.start_cmd_counter - 1
         IN  StepResult([c EXCEPT !.start_cmd_counter = n,
                                  !.state = IF n <= 0 THEN "WAITING_FOR_UNHOMED"
                                            ELSE "START"],
                        FALSE, [out EXCEPT !.Command_out = 100])
    ELSE IF c.state = "WAITING_FOR_UNHOMED"
    THEN LET started == \E j \in 0..5 : At(inp.Homed_in, j) = 0
             t == c.timeout_counter - 1
             fin == (t <= 1)
         IN  StepResult([c EXCEPT !.state = IF started THEN "WAITING_FOR_HOMED"
                                            ELSE "WAITING_FOR_UNHOMED",
                                  !.timeout_counter = t,
                                  !.is_finished = fin],
                        fin, [out EXCEPT !.Command_out = 255])
    ELSE IF c.state = "WAITING_FOR_HOMED"
    THEN LET fin == \A j \in 0..5 : At(inp.Homed_in, j) = 1
         IN  StepResult([c EXCEPT !.is_finished = fin], fin,
                        [out EXCEPT !.Command_out = 255,
                                    !.Speed_out = IF fin THEN Zeros6 ELSE @])
    ELSE StepResult(c, c.is_finished, out)

\* HomeCommand.execute_step
HomeExecuteStep(c, inp, out) ==
    IF c.is_finished THEN StepResult(c, TRUE, out)
    ELSE IF c.state = "START"
    THEN LET n == c.start_cmd_counter - 1
         IN  StepResult([c EXCEPT !.start_cmd_counter = n,
                                  !.state = IF n <= 0 THEN "WAITING_FOR_UNHOMED"
                                            ELSE "START"],
                        FALSE, [out EXCEPT !.Command_out = 100])
    ELSE IF c.state = "WAITING_FOR_UNHOMED"
    THEN LET started == \E j \in 0..5 : At(inp.Homed_in, j) = 0
             t == c.timeout_counter - 1
             fin == (t <= 0)
         IN  StepResult([c EXCEPT !.state = IF started THEN "WAITING_FOR_HOMED"
                                            ELSE "WAITING_FOR_UNHOMED",
                                  !.timeout_counter = t,
                                  !.is_finished = fin],
                        fin, [out EXCEPT !.Command_out = 255])
    ELSE IF c.state = "WAITING_FOR_HOMED"
    THEN LET fin == \A j \in 0..5 : At(inp.Homed_in, j) = 1
         IN  StepResult([c EXCEPT !.is_finished = fin], fin,
                        [out EXCEPT !.Command_out = 255,
                                    !.Speed_out = IF fin THEN Zeros6 ELSE @])
    ELSE StepResult(c, c.is_finished, out)

\* a variant of the trajectory execute_step whose last call leaves
\* Position_out at the last trajectory step
TrajectoryExecuteStepHoldsLast(c, inp, out) ==
    IF c.is_finished \/ ~c.is_valid THEN StepResult(c, TRUE, out)
    ELSE IF c.command_step >= Len(c.trajectory_steps)
    THEN StepResult([c EXCEPT !.is_finished = TRUE], TRUE,
                    [out EXCEPT !.Speed_out = Zeros6,
                                !.Command_out = 156])
    ELSE StepResult([c EXCEPT !.command_step = c.command_step + 1], FALSE,
                    [out EXCEPT !.Position_out = At(c.trajectory_steps, c.command_step),
                                !.Speed_out = Zeros6,
                                !.Command_out = 156])

\* MoveJointCommand.execute_step and ExecuteTrajectoryCommand.execute_step
\* (the two methods are the same code)
TrajectoryExecuteStep(c, inp, out) ==
    IF c.is_finished \/ ~c.is_valid THEN StepResult(c, TRUE, out)
    ELSE IF c.command_step >= Len(c.trajectory_steps)
    THEN StepResult([c EXCEPT !.is_finished = TRUE], TRUE,
                    [out EXCEPT !.Position_out = inp.Position_in,
                                !.Speed_out = Zeros6,
                                !.Command_out = 156])
    ELSE StepResult([c EXCEPT !.command_step = c.command_step + 1], FALSE,
                    [out EXCEPT !.Position_out = At(c.trajectory_steps, c.command_step),
                                !.Speed_out = Zeros6,
                                !.Command_out = 156])

\* SetIOCommand.execute_step
SetIOExecuteStep(c, inp, out) ==
    IF ~c.is_valid \/ c.is_finished THEN StepResult(c, TRUE, out)
    ELSE StepResult([c EXCEPT !.is_finished = TRUE], TRUE,
                    [out EXCEPT !.InOut_out =
                        SetAt(out.InOut_out, c.index, IF c.io_state THEN 1 ELSE 0)])

\* Fuse_bitfield_2_bytearray, and its copy in the robot model: the byte of
\* eight bits, first element the most significant
RECURSIVE FuseBits(_, _)
FuseBits(var_in, number) ==
    IF var_in = <<>> THEN number
    ELSE FuseBits(Tail(var_in), 2 * number + Head(var_in))

Fuse_bitfield_2_bytearray(var_in) == FuseBits(var_in, 0)

\* GripperCommand.execute_step
Abs(x) == IF x < 0 THEN -x ELSE x

\* GripperCommand.execute_step with a move complete only strictly inside the
\* tolerance
GripperExecuteStepStrictTolerance(c, inp, out) ==
    IF c.is_finished \/ ~c.is_valid THEN StepResult(c, TRUE, out)
    ELSE
    LET t == c.timeout_counter - 1
        st == IF c.state # "START" THEN c.state
              ELSE IF c.action = "calibrate" THEN "SEND_CALIBRATE"
              ELSE "WAIT_FOR_POSITION"
        c1 == [c EXCEPT !.timeout_counter = t, !.state = st]
        not_estop == IF At(inp.InOut_in, 4) = 0 THEN 1 ELSE 0
    IN  IF t <= 0
        THEN StepResult([c EXCEPT !.timeout_counter = t, !.is_finished = TRUE], TRUE, out)
        ELSE IF st = "SEND_CALIBRATE"
        THEN StepResult([c1 EXCEPT !.state = "WAITING_CALIBRATION"], FALSE,
                        [out EXCEPT !.Gripper_data_out = SetAt(@, 4, 1)])
        ELSE IF st = "WAITING_CALIBRATION"
        THEN LET w == c.wait_counter - 1
             IN  IF w <= 0
                 THEN StepResult([c1 EXCEPT !.wait_counter = w, !.is_finished = TRUE], TRUE,
                                 [out EXCEPT !.Gripper_data_out = SetAt(@, 4, 0)])
                 ELSE StepResult([c1 EXCEPT !.wait_counter = w], FALSE, out)
        ELSE IF st = "WAIT_FOR_POSITION"
        THEN LET done == Abs(At(inp.Gripper_data_in, 1) - c.target_position) < 5
                 command == Fuse_bitfield_2_bytearray(
                                <<1, IF done THEN 0 ELSE 1, not_estop, 1, 0, 0, 0, 0>>)
                 g == <<c.target_position, c.speed, c.current, command, 0,
                        At(out.Gripper_data_out, 5)>>
             IN  StepResult([c1 EXCEPT !.is_finished = done], done,
                            [out EXCEPT !.Gripper_data_out = g])
        ELSE StepResult(c1, c1.is_finished, out)

GripperExecuteStep(c, inp, out) ==
    IF c.is_finished \/ ~c.is_valid THEN StepResult(c, TRUE, out)
    ELSE
    LET t == c.timeout_counter - 1
        st == IF c.state # "START" THEN c.state
              ELSE IF c.action = "calibrate" THEN "SEND_CALIBRATE"
              ELSE "WAIT_FOR_POSITION"
        c1 == [c EXCEPT !.timeout_counter = t, !.state = st]
        not_estop == IF At(inp.InOut_in, 4) = 0 THEN 1 ELSE 0
    IN  IF t <= 0
        THEN StepResult([c EXCEPT !.timeout_counter = t, !.is_finished = TRUE], TRUE, out)
        ELSE IF st = "SEND_CALIBRATE"
        THEN StepResult([c1 EXCEPT !.state = "WAITING_CALIBRATION"], FALSE,
                        [out EXCEPT !.Gripper_data_out = SetAt(@, 4, 1)])
        ELSE IF st = "WAITING_CALIBRATION"
        THEN LET w == c.wait_counter - 1
             IN  IF w <= 0
                 THEN StepResult([c1 EXCEPT !.wait_counter = w, !.is_finished = TRUE], TRUE,
                                 [out EXCEPT !.Gripper_data_out = SetAt(@, 4, 0)])
                 ELSE StepResult([c1 EXCEPT !.wait_counter = w], FALSE, out)
        ELSE IF st = "WAIT_FOR_POSITION"
        THEN LET done == Abs(At(inp.Gripper_data_in, 1) - c.target_position) <= 5
                 command == Fuse_bitfield_2_bytearray(
                                <<1, IF done THEN 0 ELSE 1, not_estop, 1, 0, 0, 0, 0>>)
                 g == <<c.target_position, c.speed, c.current, command, 0,
                        At(out.Gripper_data_out, 5)>>
             IN  StepResult([c1 EXCEPT !.is_finished = done], done,
                            [out EXCEPT !.Gripper_data_out = g])
        ELSE StepResult(c1, c1.is_finished, out)

execute_step(c, inp, out) ==
    IF c.kind = "Home" THEN HomeExecuteStep(c, inp, out)
    ELSE IF c.kind = "SetIO" THEN SetIOExecuteStep(c, inp, out)
    ELSE IF c.kind = "Gripper" THEN GripperExecuteStep(c, inp, out)
    ELSE TrajectoryExecuteStep(c, inp, out)

(***************************************************************************)
(* CommandQueue (command_queue.py): a bounded FIFO with a second cap on    *)
(* the trajectory-heavy commands.  The queue is the sequence of its        *)
(* commands, head first.                                                   *)
(***************************************************************************)
is_trajectory_heavy(c) == c.kind = "ExecuteTrajectory"

trajectory_count(q) == Cardinality({i \in 1..Len(q) : is_trajectory_heavy(q[i])})

\* the reason can_add gives at the trajectory limit
TrajectoryLimitReason == "Trajectory command limit reached"

\* can_add(command) -> (bool, reason); never changes the queue
can_add(q, c) ==
    IF Len(q) >= max_size
    THEN [ok |-> FALSE, reason |-> "Queue full"]
    ELSE IF is_trajectory_heavy(c) /\ trajectory_count(q) >= max_trajectory_commands
    THEN [ok |-> FALSE, reason |-> TrajectoryLimitReason]
    ELSE [ok |-> TRUE, reason |-> ""]

\* add(command): appends to the tail
add(q, c) == Append(q, c)

\* a variant of pop that takes the newest command
pop_newest(q) == [command |-> q[Len(q)], queue |-> SubSeq(q, 1, Len(q) - 1)]

\* pop(): removes and returns the head
pop(q) == [command |-> Head(q), queue |-> Tail(q)]

(***************************************************************************)
(* NetworkHandler.send_ack (network_handler.py).  `L` is the record of the *)
(* loop's variables that the handlers of a cycle read and write.  An       *)
(* acknowledgment goes to `addr` when it is given, and always to           *)
(* localhost.                                                              *)
(***************************************************************************)
Ack(cmd_id, status, details, addr) ==
    [cmd_id |-> cmd_id, status |-> status, details |-> details, addr |-> addr]

\* a variant of send_ack that sends whatever the id is
send_ack_any_id(L, command_id, status, details, addr) ==
    [L EXCEPT !.acks = Append(@, Ack(command_id, status, details, addr))]

send_ack(L, command_id, status, details, addr) ==
    IF command_id = None THEN L
    ELSE [L EXCEPT !.acks = Append(@, Ack(command_id, status, details, addr))]

\* command_id_map, a dict keyed by the command object
InMap(m, c) == \E e \in m : e.obj = c.obj
MapGet(m, c) == CHOOSE e \in m : e.obj = c.obj
MapDel(m, c) == {e \in m : e.obj # c.obj}
MapPut(m, c, cmd_id, addr) ==
    MapDel(m, c) \cup {[obj |-> c.obj, cmd_id |-> cmd_id, addr |-> addr]}

\* a variant whose callbacks run from the newest command to the oldest
CancelAllNewestFirst(L, q, details) ==
    LET tracked == SelectSeq(q, LAMBDA c : InMap(L.command_id_map, c))
        n == Len(tracked)
        cancelled == [i \in 1..n |->
                         Ack(MapGet(L.command_id_map, tracked[n + 1 - i]).cmd_id,
                             "CANCELLED", details,
                             MapGet(L.command_id_map, tracked[n + 1 - i]).addr)]
    IN  [L EXCEPT !.acks = @ \o cancelled]

\* CommandQueue.clear(cancel_callback) with the callbacks of the loop:
\* one CANCELLED acknowledgment per tracked command, in queue order
CancelAll(L, q, details) ==
    LET tracked == SelectSeq(q, LAMBDA c : InMap(L.command_id_map, c))
        cancelled == [i \in 1..Len(tracked) |->
                         Ack(MapGet(L.command_id_map, tracked[i]).cmd_id, "CANCELLED",
                             details, MapGet(L.command_id_map, tracked[i]).addr)]
    IN  [L EXCEPT !.acks = @ \o cancelled]

clear(L, details) ==
    [CancelAll(L, L.command_queue, details) EXCEPT !.command_queue = <<>>]

(***************************************************************************)
(* CommandParser.parse (command_parser.py).  A message is its command name *)
(* and the tuple of its fields; MOVEJOINT carries the six angles as one    *)
(* field, so its nine parts are three fields here.  The result is the      *)
(* command object (NoCommand for None) and the error text.                 *)
(***************************************************************************)
Message(name, args) == [name |-> name, args |-> args]

ParseError(text) == [command_obj |-> NoCommand, error |-> text]
Parsed(c) == [command_obj |-> c, error |-> ""]

parse(message, o) ==
    LET a == message.args
    IN  IF message.name = "HOME"
        THEN Parsed(HomeCommand(o))
        ELSE IF message.name = "MOVEJOINT"
        THEN IF Len(a) # 3 THEN ParseError("MOVEJOINT expects 9 parts")
             ELSE Parsed(MoveJointCommand(o, a[1], a[2], a[3]))
        ELSE IF message.name = "EXECUTETRAJECTORY"
        THEN IF Len(a) # 2 THEN ParseError("EXECUTETRAJECTORY expects 3 parts")
             ELSE IF Len(a[1]) = 0
             THEN ParseError("EXECUTETRAJECTORY trajectory must be non-empty list")
             ELSE Parsed(ExecuteTrajectoryCommand(o, a[1], a[2]))
        ELSE IF message.name = "SET_IO"
        THEN IF Len(a) # 2 THEN ParseError("SET_IO expects 3 parts")
             ELSE Parsed(SetIOCommand(o, a[1], a[2] # 0))
        ELSE IF message.name = "ELECTRICGRIPPER"
        THEN IF Len(a) # 4 THEN ParseError("ELECTRICGRIPPER expects 5 parts")
             ELSE Parsed(GripperCommand(o, IF a[1] \in {"NONE", "MOVE"} THEN ""
                                           ELSE a[1],
                                        a[2], a[3], a[4]))
        ELSE ParseError("Unknown command")

(***************************************************************************)
(* The loop's record of variables                                          *)
(***************************************************************************)
Load ==
    [incoming_command_buffer |-> incoming_command_buffer,
     last_command_age |-> last_command_age,
     objects |-> objects,
     command_queue |-> command_queue,
     command_id_map |-> command_id_map,
     active_command |-> active_command,
     active_command_id |-> active_command_id,
     e_stop_active |-> e_stop_active,
     status_bound |-> status_bound,
     recording_enabled |-> recording_enabled,
     Command_out |-> Command_out,
     Speed_out |-> Speed_out,
     Position_out |-> Position_out,
     InOut_out |-> InOut_out,
     Gripper_data_out |-> Gripper_data_out,
     acks |-> acks,
     responses |-> responses,
     raised |-> FALSE]

Store(L) ==
    /\ incoming_command_buffer' = L.incoming_command_buffer
    /\ last_command_age' = L.last_command_age
    /\ objects' = L.objects
    /\ command_queue' = L.command_queue
    /\ command_id_map' = L.command_id_map
    /\ active_command' = L.active_command
    /\ active_command_id' = L.active_command_id
    /\ e_stop_active' = L.e_stop_active
    /\ status_bound' = L.status_bound
    /\ recording_enabled' = L.recording_enabled
    /\ Command_out' = L.Command_out
    /\ Speed_out' = L.Speed_out
    /\ Position_out' = L.Position_out
    /\ InOut_out' = L.InOut_out
    /\ Gripper_data_out' = L.Gripper_data_out
    /\ acks' = L.acks
    /\ responses' = L.responses

(***************************************************************************)
(* Network intake (commander.py, the body of the for loop over the         *)
(* received datagrams).  A datagram d is (cmd_id, message, addr);          *)
(* d.send_fails says that the socket's sendto raises for it.               *)
(***************************************************************************)
\* STOP
HandleStop(L, d) ==
    LET L1 == IF L.active_command # NoCommand /\ L.active_command_id # None
              THEN send_ack(L, L.active_command_id, "CANCELLED", "Stopped by user", d.addr)
              ELSE L
        L2 == [L1 EXCEPT !.active_command = NoCommand, !.active_command_id = None]
        L3 == [clear(L2, "Queue cleared by STOP") EXCEPT
                   !.command_id_map = {}, !.Command_out = 255, !.Speed_out = Zeros6]
    IN  send_ack(L3, d.cmd_id, "COMPLETED", "Emergency stop executed", d.addr)

\* CLEAR_ESTOP
HandleClearEstop(L, d) ==
    send_ack([L EXCEPT !.Command_out = 101, !.e_stop_active = FALSE],
             d.cmd_id, "COMPLETED", "E-stop cleared", d.addr)

\* a variant that sends a query through the intake buffer like a motion
\* command
HandleGetBuffered(L, d, feedback) ==
    [L EXCEPT !.incoming_command_buffer =
        Append(@, [cmd_id |-> d.cmd_id, message |-> d.message, addr |-> d.addr])]

\* GET_ANGLES, and likewise every other GET_* query: the response goes out
\* on the command socket, whose sendto may raise
HandleGet(L, d, feedback) ==
    IF d.send_fails THEN [L EXCEPT !.raised = TRUE]
    ELSE send_ack([L EXCEPT !.responses =
                       Append(@, [tag |-> d.message.name, data |-> feedback,
                                  addr |-> d.addr])],
                  d.cmd_id, "COMPLETED", "data sent", d.addr)

\* every other command is buffered
HandleBuffer(L, d) ==
    [L EXCEPT !.incoming_command_buffer =
        Append(@, [cmd_id |-> d.cmd_id, message |-> d.message, addr |-> d.addr])]

GetNames == {"GET_ANGLES"}

HandleDatagram(L, d, feedback) ==
    IF d.message.name = "STOP" THEN HandleStop(L, d)
    ELSE IF d.message.name = "CLEAR_ESTOP" THEN HandleClearEstop(L, d)
    ELSE IF d.message.name \in GetNames THEN HandleGet(L, d, feedback)
    ELSE HandleBuffer(L, d)

\* the for loop: an exception ends it, the except clause logs it
RECURSIVE HandleAll(_, _, _)
HandleAll(L, received_commands, feedback) ==
    IF received_commands = <<>> \/ L.raised THEN L
    ELSE HandleAll(HandleDatagram(L, Head(received_commands), feedback),
                   Tail(received_commands), feedback)

(***************************************************************************)
(* Processing phase (commander.py 1447-1523): at most one buffered         *)
(* command per cooldown window is parsed and offered to the queue.         *)
(***************************************************************************)
\* a variant of the admission that adds without asking can_add
AdmitUnchecked(L, cmd_id, p, addr) ==
    IF p.command_obj # NoCommand
    THEN IF ~p.command_obj.is_valid
         THEN send_ack(L, cmd_id, "INVALID", "Command failed validation", addr)
         ELSE LET L1 == [L EXCEPT !.command_queue = add(@, p.command_obj)]
              IN  IF cmd_id # None
                  THEN send_ack([L1 EXCEPT !.command_id_map =
                                     MapPut(@, p.command_obj, cmd_id, addr)],
                                cmd_id, "QUEUED", "Position in queue", addr)
                  ELSE L1
    ELSE send_ack(L, cmd_id, "INVALID", p.error, addr)

\* a variant of the admission that goes on to add after it has rejected
AdmitAfterReject(L, cmd_id, p, addr) ==
    IF p.command_obj # NoCommand
    THEN IF ~p.command_obj.is_valid
         THEN send_ack(L, cmd_id, "INVALID", "Command failed validation", addr)
         ELSE LET r == can_add(L.command_queue, p.command_obj)
                  L0 == IF ~r.ok THEN send_ack(L, cmd_id, "REJECTED", r.reason, addr)
                        ELSE L
                  L1 == [L0 EXCEPT !.command_queue = add(@, p.command_obj)]
              IN  IF cmd_id # None
                  THEN send_ack([L1 EXCEPT !.command_id_map =
                                     MapPut(@, p.command_obj, cmd_id, addr)],
                                cmd_id, "QUEUED", "Position in queue", addr)
                  ELSE L1
    ELSE send_ack(L, cmd_id, "INVALID", p.error, addr)

\* a variant of the admission that rejects without passing the reason on
AdmitRejectWithoutReason(L, cmd_id, p, addr) ==
    IF p.command_obj # NoCommand
    THEN IF ~p.command_obj.is_valid
         THEN send_ack(L, cmd_id, "INVALID", "Command failed validation", addr)
         ELSE LET r == can_add(L.command_queue, p.command_obj)
              IN  IF ~r.ok
                  THEN send_ack(L, cmd_id, "REJECTED", "", addr)
                  ELSE LET L1 == [L EXCEPT !.command_queue = add(@, p.command_obj)]
                       IN  IF cmd_id # None
                           THEN send_ack([L1 EXCEPT !.command_id_map =
                                              MapPut(@, p.command_obj, cmd_id, addr)],
                                         cmd_id, "QUEUED", "Position in queue", addr)
                           ELSE L1
    ELSE send_ack(L, cmd_id, "INVALID", p.error, addr)

\* a variant of the admission that does not acknowledge the queueing
AdmitWithoutQueuedAck(L, cmd_id, p, addr) ==
    IF p.command_obj # NoCommand
    THEN IF ~p.command_obj.is_valid
         THEN send_ack(L, cmd_id, "INVALID", "Command failed validation", addr)
         ELSE LET r == can_add(L.command_queue, p.command_obj)
              IN  IF ~r.ok
                  THEN send_ack(L, cmd_id, "REJECTED", r.reason, addr)
                  ELSE LET L1 == [L EXCEPT !.command_queue = add(@, p.command_obj)]
                       IN  IF cmd_id # None
                           THEN [L1 EXCEPT !.command_id_map =
                                    MapPut(@, p.command_obj, cmd_id, addr)]
                           ELSE L1
    ELSE send_ack(L, cmd_id, "INVALID", p.error, addr)

\* lines 1496-1522: queue admission and its acknowledgments
Admit(L, cmd_id, p, addr) ==
    IF p.command_obj # NoCommand
    THEN IF ~p.command_obj.is_valid
         THEN send_ack(L, cmd_id, "INVALID", "Command failed validation", addr)
         ELSE LET r == can_add(L.command_queue, p.command_obj)
              IN  IF ~r.ok
                  THEN send_ack(L, cmd_id, "REJECTED", r.reason, addr)
                  ELSE LET L1 == [L EXCEPT !.command_queue = add(@, p.command_obj)]
                       IN  IF cmd_id # None
                           THEN send_ack([L1 EXCEPT !.command_id_map =
                                              MapPut(@, p.command_obj, cmd_id, addr)],
                                         cmd_id, "QUEUED", "Position in queue", addr)
                           ELSE L1
    ELSE send_ack(L, cmd_id, "INVALID", p.error, addr)

\* lines 1466-1481: SET_RECORDING; the name `status` is assigned only for
\* a tracked command and read for every command
SetRecording(L, b) ==
    LET L1 == [L EXCEPT !.recording_enabled = (Len(b.message.args) > 0 /\ b.message.args[1] = 1)]
    IN  IF b.cmd_id # None
        THEN send_ack([L1 EXCEPT !.status_bound = TRUE], b.cmd_id, "COMPLETED",
                      "Auto-recording", b.addr)
        ELSE L1

\* a variant of the processing phase that does not wait for the cooldown
ProcessBufferWithoutCooldown(L) ==
    IF L.incoming_command_buffer # <<>> /\ ~L.e_stop_active
    THEN LET b == Head(L.incoming_command_buffer)
             L1 == [L EXCEPT !.incoming_command_buffer = Tail(@),
                             !.last_command_age = "within"]
         IN  IF b.message.name = "SET_RECORDING"
             THEN LET L2 == SetRecording(L1, b)
                  IN  [L |-> L2, exit |-> IF L2.status_bound THEN "continue" ELSE "raise"]
             ELSE LET p == parse(b.message, L1.objects + 1)
                      L2 == IF p.command_obj # NoCommand
                            THEN [L1 EXCEPT !.objects = @ + 1] ELSE L1
                  IN  [L |-> Admit(L2, b.cmd_id, p, b.addr), exit |-> "next"]
    ELSE [L |-> L, exit |-> "next"]

\* the result also says how the phase ends: "next" (the cycle goes on),
\* "continue" (the rest of the cycle is skipped), "raise" (an exception
\* leaves the loop)
ProcessBuffer(L) ==
    IF L.incoming_command_buffer # <<>>
       /\ L.last_command_age = "beyond"
       /\ ~L.e_stop_active
    THEN LET b == Head(L.incoming_command_buffer)
             L1 == [L EXCEPT !.incoming_command_buffer = Tail(@),
                             !.last_command_age = "within"]
         IN  IF b.message.name = "SET_RECORDING"
             THEN LET L2 == SetRecording(L1, b)
                  IN  [L |-> L2, exit |-> IF L2.status_bound THEN "continue" ELSE "raise"]
             ELSE LET p == parse(b.message, L1.objects + 1)
                      L2 == IF p.command_obj # NoCommand
                            THEN [L1 EXCEPT !.objects = @ + 1] ELSE L1
                  IN  [L |-> Admit(L2, b.cmd_id, p, b.addr), exit |-> "next"]
    ELSE [L |-> L, exit |-> "next"]

(***************************************************************************)
(* Execution phase (commander.py 1528-1770)                                *)
(***************************************************************************)
Outputs(L) ==
    [Command_out |-> L.Command_out, Speed_out |-> L.Speed_out,
     Position_out |-> L.Position_out, InOut_out |-> L.InOut_out,
     Gripper_data_out |-> L.Gripper_data_out]

WithOutputs(L, out) ==
    [L EXCEPT !.Command_out = out.Command_out, !.Speed_out = out.Speed_out,
              !.Position_out = out.Position_out, !.InOut_out = out.InOut_out,
              !.Gripper_data_out = out.Gripper_data_out]

\* lines 1548-1550: CANCELLED for every tracked command still in the buffer
RECURSIVE CancelBuffered(_, _)
CancelBuffered(L, buf) ==
    IF buf = <<>> THEN L
    ELSE CancelBuffered(send_ack(L, Head(buf).cmd_id, "CANCELLED",
                                 "E-Stop activated - command not processed",
                                 Head(buf).addr),
                        Tail(buf))

\* a variant that stops the motion but leaves the active command and the
\* queue alone
EstopPressedKeepsCommands(L) ==
    [L EXCEPT !.e_stop_active = TRUE, !.Command_out = 102, !.Speed_out = Zeros6,
              !.Gripper_data_out = SetAt(@, 3, 0)]

\* lines 1530-1562: the E-stop input is asserted
EstopPressed(L) ==
    LET L1 == IF L.active_command # NoCommand
              THEN send_ack(L, L.active_command_id, "CANCELLED", "E-Stop activated", None)
              ELSE L
        L2 == clear(L1, "E-Stop activated")
        L3 == [CancelBuffered(L2, L2.incoming_command_buffer) EXCEPT !.e_stop_active = TRUE]
        L4 == IF ~L.e_stop_active THEN L3 ELSE L
    IN  [L4 EXCEPT !.Command_out = 102,
                   !.Speed_out = Zeros6,
                   !.Gripper_data_out = SetAt(@, 3, 0),
                   !.active_command = NoCommand,
                   !.active_command_id = None,
                   !.command_id_map = {},
                   !.incoming_command_buffer = <<>>]

\* lines 1564-1580: the flag is latched and the input released;
\* key_e: keyboard.is_pressed('e') returned true
EstopLatched(L, inp, key_e) ==
    IF key_e
    THEN [L EXCEPT !.Command_out = 101, !.e_stop_active = FALSE]
    ELSE [L EXCEPT !.Command_out = 255, !.Speed_out = Zeros6,
                   !.Position_out = inp.Position_in]

\* lines 1591-1648: validate, prepare and promote the command that pop
\* returned (r is pop's result).  The result says whether the cycle goes
\* on ("next") or is cut short ("continue")
Promote(L, inp, r) ==
    LET new_command == r.command
        L1 == [L EXCEPT !.command_queue = r.queue]
        tracked == InMap(L.command_id_map, new_command)
        new_cmd_id == IF tracked THEN MapGet(L.command_id_map, new_command).cmd_id ELSE None
        new_addr == IF tracked THEN MapGet(L.command_id_map, new_command).addr ELSE None
    IN  IF ~new_command.is_valid
        THEN [L |-> [send_ack(L1, new_cmd_id, "INVALID", "Initial validation failed", new_addr)
                        EXCEPT !.command_id_map = MapDel(@, new_command)],
              exit |-> "continue", popped |-> new_command]
        ELSE LET c == IF HasPrepare(new_command)
                      THEN prepare_for_execution(new_command, inp.Position_in)
                      ELSE new_command
             IN  IF ~c.is_valid
                 THEN [L |-> [send_ack(L1, new_cmd_id, "FAILED", "Failed during preparation", new_addr)
                                 EXCEPT !.command_id_map = MapDel(@, new_command)],
                       exit |-> "next", popped |-> c]
                 ELSE [L |-> send_ack([L1 EXCEPT !.active_command = c,
                                                 !.active_command_id = new_cmd_id],
                                      new_cmd_id, "EXECUTING", "Starting", new_addr),
                       exit |-> "next", popped |-> c]

\* a variant that takes the newest command of the queue
StartNewestCommand(L, inp) == Promote(L, inp, pop_newest(L.command_queue))

\* a variant that prepares the command with the feedback position of the
\* cycle that queued it
StartCommandWithEnqueuePosition(L, inp) ==
    Promote(L, [inp EXCEPT !.Position_in = Head(L.command_queue).enqueued_with],
            pop(L.command_queue))

\* lines 1587-1648: pop, validate, prepare, promote
StartCommand(L, inp) == Promote(L, inp, pop(L.command_queue))

\* a variant that acknowledges the end of a command and keeps it active
StepActiveKeepsFinished(L, inp) ==
    IF L.active_command # NoCommand
    THEN LET r == execute_step(L.active_command, inp, Outputs(L))
             L1 == WithOutputs(L, r.out)
         IN  IF r.done
             THEN [send_ack(L1, L.active_command_id, "COMPLETED", "finished successfully", None)
                      EXCEPT !.command_id_map = MapDel(@, L.active_command),
                             !.active_command = r.cmd]
             ELSE [L1 EXCEPT !.active_command = r.cmd]
    ELSE [L EXCEPT !.Command_out = 255, !.Speed_out = Zeros6,
                   !.Position_out = inp.Position_in]

\* lines 1651-1770: one execute_step of the active command, or idle
StepActive(L, inp) ==
    IF L.active_command # NoCommand
    THEN LET r == execute_step(L.active_command, inp, Outputs(L))
             L1 == WithOutputs(L, r.out)
         IN  IF r.done
             THEN [send_ack(L1, L.active_command_id, "COMPLETED", "finished successfully", None)
                      EXCEPT !.command_id_map = MapDel(@, L.active_command),
                             !.active_command = NoCommand,
                             !.active_command_id = None]
             ELSE [L1 EXCEPT !.active_command = r.cmd]
    ELSE [L EXCEPT !.Command_out = 255, !.Speed_out = Zeros6,
                   !.Position_out = inp.Position_in]

\* a variant of the lifecycle that starts the next command although one is
\* active
RunCommandsPopsAlways(L, inp) ==
    IF L.command_queue # <<>>
    THEN LET s == StartCommand(L, inp)
         IN  IF s.exit = "continue"
             THEN [L |-> s.L, exit |-> "continue", popped |-> s.popped,
                   stepped |-> NoCommand]
             ELSE [L |-> StepActive(s.L, inp), exit |-> "next", popped |-> s.popped,
                   stepped |-> s.L.active_command]
    ELSE [L |-> StepActive(L, inp), exit |-> "next", popped |-> NoCommand,
          stepped |-> L.active_command]

\* lines 1582-1770: no E-stop; popped is the command taken from the queue
\* (as prepare_for_execution left it), stepped the command execute_step
\* was called on (as it was before the call)
RunCommands(L, inp) ==
    LET s == IF L.active_command = NoCommand /\ L.command_queue # <<>>
             THEN StartCommand(L, inp)
             ELSE [L |-> L, exit |-> "next", popped |-> NoCommand]
    IN  IF s.exit = "continue"
        THEN [L |-> s.L, exit |-> "continue", popped |-> s.popped, stepped |-> NoCommand]
        ELSE [L |-> StepActive(s.L, inp), exit |-> "next", popped |-> s.popped,
              stepped |-> s.L.active_command]

\* a variant of Execute that looks at the latched flag only, not at the input
ExecuteIgnoringInput(L, inp, key_e) ==
    IF L.e_stop_active
    THEN [L |-> EstopLatched(L, inp, key_e), exit |-> "next", popped |-> NoCommand,
          stepped |-> NoCommand]
    ELSE RunCommands(L, inp)

\* the whole phase
Execute(L, inp, key_e) ==
    IF At(inp.InOut_in, 4) = 0
    THEN [L |-> EstopPressed(L), exit |-> "next", popped |-> NoCommand,
          stepped |-> NoCommand]
    ELSE IF L.e_stop_active
    THEN [L |-> EstopLatched(L, inp, key_e), exit |-> "next", popped |-> NoCommand,
          stepped |-> NoCommand]
    ELSE RunCommands(L, inp)

\* the ids of the tracked commands of a queue
TrackedIds(m, q) ==
    {MapGet(m, q[i]).cmd_id : i \in {j \in 1..Len(q) : InMap(m, q[j])}}

\* what a cycle has done so far: the execution phase's pop and step, the
\* state of the E-stop at its check (pressed: the input is asserted; estop:
\* the input is asserted or the flag is latched), the tracked commands that
\* were active or queued at the check, the number of acknowledgments sent
\* before the phase, and whether the frame was written
NoObs == [popped |-> NoCommand, stepped |-> NoCommand, estop |-> FALSE,
          pressed |-> FALSE, had_active |-> FALSE, tracked |-> {},
          acks_before |-> 0, frame_sent |-> FALSE]

Observe(L, inp, r) ==
    [popped |-> r.popped, stepped |-> r.stepped,
     estop |-> (At(inp.InOut_in, 4) = 0 \/ L.e_stop_active),
     pressed |-> (At(inp.InOut_in, 4) = 0),
     had_active |-> (L.active_command # NoCommand),
     tracked |-> (IF L.active_command # NoCommand /\ L.active_command_id # None
                  THEN {L.active_command_id} ELSE {})
                 \cup TrackedIds(L.command_id_map, L.command_queue),
     acks_before |-> Len(L.acks),
     frame_sent |-> FALSE]

(***************************************************************************)
(* Serial phase (commander.py 1772-1797)                                   *)
(***************************************************************************)
\* Pack_data: the fields of the outbound frame
Pack_data(L) ==
    [Position |-> L.Position_out, Speed |-> L.Speed_out, Command |-> L.Command_out,
     InOut |-> L.InOut_out, Gripper_data |-> L.Gripper_data_out]

\* a variant of Pack_data that leaves the stored mode alone
KeepGripperMode(L) == L

\* Pack_data lines 435-436: the gripper mode is a one-shot
ResetGripperMode(L) ==
    IF At(L.Gripper_data_out, 4) = 1 \/ At(L.Gripper_data_out, 4) = 2
    THEN [L EXCEPT !.Gripper_data_out = SetAt(@, 4, 0)]
    ELSE L

\* except serial.SerialException (lines 1786-1797)
SerialFailure(L) ==
    [send_ack(L, L.active_command_id, "FAILED", "Serial communication lost", None)
        EXCEPT !.active_command = NoCommand, !.active_command_id = None]

(***************************************************************************)
(* Byte level of the serial protocol (commander.py 147-179, 451-567)       *)
(***************************************************************************)
\* int_to_3_bytes = struct.Struct('>I').pack: four bytes, big endian
int_to_3_bytes(v) ==
    <<(v \div (2^24)) % 256, (v \div (2^16)) % 256, (v \div (2^8)) % 256, v % 256>>

\* Split_2_3_bytes: var_in & 0xFFFFFF is the value modulo 2^24, also for a
\* negative var_in
Split_2_3_bytes(var_in) == int_to_3_bytes(var_in % (2^24))

\* struct.unpack(">I", bytearray(var_in))[0]; the callers pass 0 as the
\* first byte
UnpackBigEndian(var_in) ==
    ((var_in[1] * 256 + var_in[2]) * 256 + var_in[3]) * 256 + var_in[4]

\* a variant of Fuse_3_bytes without the sign
Fuse_3_bytes_unsigned(var_in) == UnpackBigEndian(var_in)

\* Fuse_3_bytes
Fuse_3_bytes(var_in) ==
    LET value == UnpackBigEndian(var_in)
    IN  IF value >= 2^23 THEN value - 2^24 ELSE value

\* Fuse_2_bytes
Fuse_2_bytes(var_in) ==
    LET value == UnpackBigEndian(var_in)
    IN  IF value >= 2^15 THEN value - 2^16 ELSE value

\* Split_2_bitfield: the eight bits of a byte, most significant first
Split_2_bitfield(var_in) == [i \in 1..8 |-> (var_in \div (2^(8 - i))) % 2]

\* a value before it is split, on the wire, and after it is fused again;
\* width is the number of bytes of its field
NoWire == [stage |-> "idle", width |-> 0, value |-> 0, bytes |-> <<>>, fused |-> 0]

\* the globals of Get_data at startup; data_buffer ([None]*255) is the
\* function from the indices written so far to the bytes written.  Three
\* fields observe the scanner: `run` counts the start bytes read in a row
\* up to and including input_byte (3 stands for three or more), `unpacked`
\* says that the last byte read made Get_data call Unpack_data, `raised`
\* names the exception that ended Get_data.
start_cond_byte == 255
end_cond1_byte == 1
end_cond2_byte == 2
BufferSize == 255

ScannerStart ==
    [input_byte |-> 0, start_cond1 |-> 0, start_cond2 |-> 0, start_cond3 |-> 0,
     good_start |-> 0, data_len |-> 0, data_buffer |-> <<>>, data_counter |-> 0,
     run |-> 0, unpacked |-> FALSE, raised |-> ""]

\* data_buffer[i], with Python's negative indices
Buf(data_buffer, i) ==
    LET k == IF i < 0 THEN i + BufferSize ELSE i
    IN  IF k \in DOMAIN data_buffer THEN data_buffer[k] ELSE None

\* Get_data, good_start != 1: the chain of start conditions for one byte
ScanStart(g, b) ==
    LET g0 == IF g.start_cond1 = 1 /\ g.start_cond2 = 1 /\ g.start_cond3 = 1
              THEN [g EXCEPT !.good_start = 1, !.data_len = b]
              ELSE g
        g1 == IF b = start_cond_byte /\ g0.start_cond2 = 1 /\ g0.start_cond1 = 1
              THEN [g0 EXCEPT !.start_cond3 = 1]
              ELSE IF g0.start_cond2 = 1 /\ g0.start_cond1 = 1
              THEN [g0 EXCEPT !.start_cond1 = 0, !.start_cond2 = 0]
              ELSE g0
        g2 == IF b = start_cond_byte /\ g1.start_cond1 = 1
              THEN [g1 EXCEPT !.start_cond2 = 1]
              ELSE IF g1.start_cond1 = 1
              THEN [g1 EXCEPT !.start_cond1 = 0]
              ELSE g1
    IN  IF b = start_cond_byte THEN [g2 EXCEPT !.start_cond1 = 1] ELSE g2

\* Get_data, lines 529-534: back to scanning for a start
ScanReset(g) ==
    [g EXCEPT !.good_start = 0, !.start_cond1 = 0, !.start_cond3 = 0,
              !.start_cond2 = 0, !.data_len = 0, !.data_counter = 0]

\* Unpack_data reads the bytes 0..55 of the buffer (byte 52 is ignored);
\* a byte that was never written is None and raises TypeError when it is
\* joined or converted.  The feedback arrays are written in the order of
\* the code, so an exception leaves the earlier ones written.
FrameBytes == 56
JointsRead(data_buffer) ==
    LET ok(i) == \A k \in {3 * i, 3 * i + 1, 3 * i + 2,
                           18 + 3 * i, 18 + 3 * i + 1, 18 + 3 * i + 2} :
                    Buf(data_buffer, k) # None
    IN  IF \E i \in 0..5 : ~ok(i)
        THEN CHOOSE i \in 0..5 : ~ok(i) /\ \A j \in 0..(i - 1) : ok(j)
        ELSE 6

Unpack_data(data_buffer, fb) ==
    LET n == JointsRead(data_buffer)
        homed == n = 6 /\ Buf(data_buffer, 36) # None
        inout == homed /\ Buf(data_buffer, 37) # None
        whole == inout /\ \A k \in (38..(FrameBytes - 1)) \ {52} :
                              Buf(data_buffer, k) # None
    IN  [Position_in |-> [j \in 1..6 |->
                            IF j <= n
                            THEN Fuse_3_bytes(<<0, Buf(data_buffer, 3 * j - 3),
                                                Buf(data_buffer, 3 * j - 2),
                                                Buf(data_buffer, 3 * j - 1)>>)
                            ELSE fb.Position_in[j]],
         Homed_in |-> IF homed THEN Split_2_bitfield(Buf(data_buffer, 36))
                      ELSE fb.Homed_in,
         InOut_in |-> IF inout THEN Split_2_bitfield(Buf(data_buffer, 37))
                      ELSE fb.InOut_in,
         raised |-> IF whole THEN "" ELSE "TypeError"]

\* Get_data: the body of the while loop for the byte b; fb is the feedback
\* arrays.  The result is the globals and the arrays after the byte.
ScanByte(g, b, fb) ==
    LET g0 == [g EXCEPT !.input_byte = b, !.unpacked = FALSE,
                        !.run = IF b # start_cond_byte THEN 0
                                ELSE IF g.run < 3 THEN g.run + 1
                                ELSE 3]
        same == [Position_in |-> fb.Position_in, Homed_in |-> fb.Homed_in,
                 InOut_in |-> fb.InOut_in, raised |-> ""]
    IN  IF g.good_start # 1
        THEN [g |-> ScanStart(g0, b), fb |-> same]
        ELSE IF g.data_counter >= BufferSize
        THEN [g |-> [g0 EXCEPT !.raised = "IndexError"], fb |-> same]
        ELSE
        LET g1 == [g0 EXCEPT !.data_buffer =
                                [k \in DOMAIN @ \cup {g.data_counter} |->
                                    IF k = g.data_counter THEN b ELSE @[k]]]
        IN  IF g.data_counter = g.data_len - 1
            THEN IF /\ Buf(g1.data_buffer, g.data_len - 1) = end_cond2_byte
                    /\ Buf(g1.data_buffer, g.data_len - 2) = end_cond1_byte
                 THEN LET u == Unpack_data(g1.data_buffer, fb)
                      IN  IF u.raised # ""
                          THEN [g |-> [g1 EXCEPT !.unpacked = TRUE, !.raised = u.raised],
                                fb |-> u]
                          ELSE [g |-> [ScanReset(g1) EXCEPT !.unpacked = TRUE], fb |-> u]
                 ELSE [g |-> ScanReset(g1), fb |-> same]
            ELSE [g |-> [g1 EXCEPT !.data_counter = g.data_counter + 1], fb |-> same]

(***************************************************************************)
(* Client-side tracker (src/api/robot_client.py, LazyCommandTracker): the  *)
(* listener thread and a caller thread share command_history and the lock. *)
(* `lock` is the holder of self.lock, `listener` and `caller` are the      *)
(* places of the two threads, `access` the last access to command_history  *)
(* (who made it, which, and who held the lock at that moment).             *)
(***************************************************************************)
MaxTracked == 2
history_size == 1

NoAccess == [by |-> "", op |-> "", holder |-> ""]

\* what wait_for_completion returned last: from its loop ("completed") or
\* after its timeout ("timeout"), and the status of the dict returned
NoReturn == [how |-> "", status |-> ""]

TrackerStart ==
    [lock |-> "free", command_history |-> <<>>, listener |-> "recvfrom",
     ack |-> [cmd_id |-> 0, status |-> ""], caller |-> "idle", cmd_id |-> 0,
     issued |-> 0, access |-> NoAccess, returned |-> NoReturn]

Access(t, by, op) == [t EXCEPT !.access = [by |-> by, op |-> op, holder |-> t.lock]]

\* _listen_loop: recvfrom returned an ACK datagram
ListenerReceived(t, cmd_id, status) ==
    [t EXCEPT !.ack = [cmd_id |-> cmd_id, status |-> status],
              !.listener = "lock_update"]

\* `with self.lock:` in the thread `who`, entered
Locked(t, who) == [t EXCEPT !.lock = who]

\* _listen_loop: the body of the with block, and its exit
ListenerUpdate(t) ==
    LET t1 == Access(t, "listener", "update")
    IN  [t1 EXCEPT !.command_history =
                      IF t.ack.cmd_id \in DOMAIN @
                      THEN [@ EXCEPT ![t.ack.cmd_id] = t.ack.status]
                      ELSE @,
                   !.lock = "free",
                   !.listener = "len_check"]

\* _listen_loop: `if len(self.command_history) > self.history_size`, after
\* the with block
ListenerSizeCheck(t) ==
    LET t1 == Access(t, "listener", "len")
    IN  [t1 EXCEPT !.listener =
                      IF Cardinality(DOMAIN t.command_history) > history_size
                      THEN "lock_cleanup" ELSE "recvfrom"]

\* _cleanup_old_entries: the entries older than 30 s are deleted
CleanupOldEntries(t, expired) ==
    LET t1 == Access(t, "listener", "cleanup")
    IN  [t1 EXCEPT !.command_history =
                      [id \in (DOMAIN @) \ expired |-> @[id]],
                   !.lock = "free",
                   !.listener = "recvfrom"]

\* track_command: the body of the with block, and its exit
TrackInsert(t) ==
    LET t1 == Access(t, "caller", "insert")
    IN  [t1 EXCEPT !.command_history =
                      [id \in (DOMAIN @) \cup {t.cmd_id} |->
                          IF id = t.cmd_id THEN "SENT" ELSE @[id]],
                   !.lock = "free",
                   !.caller = "idle"]

\* get_status: the body of the with block, and its exit
StatusRead(t) ==
    [Access(t, "caller", "get") EXCEPT !.lock = "free", !.caller = "idle"]

\* the 'completed' flag the listener stores with a status; a tracked command
\* starts as SENT, not completed
Completed(status) == status \in {"COMPLETED", "FAILED", "INVALID", "CANCELLED"}

\* wait_for_completion: one get_status of the loop, and the test of its
\* result
WaitPoll(t) ==
    LET t1 == [Access(t, "caller", "get") EXCEPT !.lock = "free"]
        known == t.cmd_id \in DOMAIN t.command_history
    IN  IF known /\ Completed(t.command_history[t.cmd_id])
        THEN [t1 EXCEPT !.caller = "idle",
                        !.returned = [how |-> "completed",
                                      status |-> t.command_history[t.cmd_id]]]
        ELSE [t1 EXCEPT !.caller = "wait_sleep"]

\* wait_for_completion: the get_status after the loop has run out of time
WaitLast(t) ==
    LET t1 == [Access(t, "caller", "get") EXCEPT !.lock = "free"]
        known == t.cmd_id \in DOMAIN t.command_history
    IN  [t1 EXCEPT !.caller = "idle",
                   !.returned = [how |-> "timeout",
                                 status |-> IF known THEN t.command_history[t.cmd_id]
                                            ELSE "TIMEOUT"]]

(***************************************************************************)
(* USB bridge (src/commander/parol6_usb_bridge.py, main): the receive loop *)
(* and the worker thread share task_queue, a queue.Queue.  The n-th        *)
(* datagram makes task n; a tracked one carries the id n.  `acks` is every *)
(* acknowledgment sent on ack_sock, in order, `dispatched` the tasks       *)
(* dispatch_command was called on, in order, `answered` the number of      *)
(* queries handle_get has answered.                                        *)
(***************************************************************************)
MaxTasks == 3

NoTask == [n |-> 0, cmd_id |-> None, name |-> ""]

CommandTask(n, cmd_id, name) == [n |-> n, cmd_id |-> cmd_id, name |-> name]

BridgeStart ==
    [task_queue |-> <<>>, received |-> 0, answered |-> 0,
     main |-> "select", queued |-> NoTask,
     worker |-> "get", task |-> NoTask, status |-> "",
     acks |-> <<>>, dispatched |-> <<>>]

BridgeAck(b, cmd_id, status) ==
    IF cmd_id = None THEN b
    ELSE [b EXCEPT !.acks = Append(@, [cmd_id |-> cmd_id, status |-> status])]

IsQuery(name) == name \in {"GET_STATUS", "GET_ANGLES"}

\* lines 309-331: the datagram is received and parsed; a query is answered
\* at once, anything else is put on task_queue
BridgeReceive(b, cmd_id, name) ==
    LET n == b.received + 1
        task == CommandTask(n, cmd_id, name)
    IN  IF IsQuery(name)
        THEN [b EXCEPT !.received = n, !.answered = @ + 1]
        ELSE [b EXCEPT !.received = n,
                       !.task_queue = Append(@, task),
                       !.queued = task,
                       !.main = "ack"]

\* lines 325-326 and 332-333: the QUEUED acknowledgment of the task just put
BridgeQueuedAck(b) ==
    [BridgeAck(b, b.queued.cmd_id, "QUEUED") EXCEPT !.main = "select",
                                                    !.queued = NoTask]

\* line 289: task_queue.get() returns the head of a queue that is not empty
WorkerGet(b) ==
    [b EXCEPT !.task = Head(b.task_queue), !.task_queue = Tail(@),
              !.worker = "executing"]

\* lines 290-291
WorkerExecutingAck(b) ==
    [BridgeAck(b, b.task.cmd_id, "EXECUTING") EXCEPT !.worker = "dispatch"]

\* lines 292-299: dispatch_command returns ok, or raises (ok = FALSE)
WorkerDispatch(b, ok) ==
    [b EXCEPT !.dispatched = Append(@, b.task.n),
              !.status = IF ok THEN "COMPLETED" ELSE "FAILED",
              !.worker = "done"]

\* lines 300-301
WorkerFinalAck(b) ==
    [BridgeAck(b, b.task.cmd_id, b.status) EXCEPT !.worker = "get",
                                                  !.task = NoTask,
                                                  !.status = ""]

CodecIdle ==
    /\ scanner = ScannerStart
    /\ wire = NoWire
    /\ tracker = TrackerStart
    /\ bridge = BridgeStart

(***************************************************************************)
(* Environment: the clients' datagrams and the robot's feedback frames     *)
(***************************************************************************)
Clients == {1, 2}
\* the n-th datagram comes from the first client when n is odd, from the
\* second when n is even
ClientOf(n) == IF n % 2 = 1 THEN 1 ELSE 2

Position_in0 == <<31, 32, 33, 34, 35, 36>>
Homed0 == <<0, 0, 0, 0, 0, 0, 0, 0>>
Homed1 == <<1, 1, 1, 1, 1, 1, 1, 1>>
InOut1 == <<1, 1, 1, 1, 1, 1, 1, 1>>
\* the E-stop input is bit 4, and 0 means pressed
InOut0 == <<1, 1, 1, 1, 0, 1, 1, 1>>

\* the gripper's feedback at startup
Gripper_data_in0 == <<1, 1, 1, 1, 1, 1>>

Feedbacks ==
    [Position_in : {Position_in0}, Homed_in : {Homed0},
     InOut_in : {InOut1, InOut0}, Gripper_data_in : {Gripper_data_in0}]

InAngles == Zeros6
OutAngles == <<0, 0, 0, 0, 0, 200>>

Messages ==
    { Message("STOP", <<>>),
      Message("CLEAR_ESTOP", <<>>),
      Message("GET_ANGLES", <<>>),
      Message("SET_RECORDING", <<1>>),
      Message("MOVEJOINT", <<InAngles, 20, None>>),
      Message("MOVEJOINT", <<InAngles, 5, None>>),
      Message("MOVEJOINT", <<OutAngles, 20, None>>),
      Message("FOO", <<>>) }

\* the n-th datagram of the run, out of a menu of messages: tracked ones
\* carry the id n; only the response to a query can fail to be sent
Datagrams(n, menu) ==
    { d \in [cmd_id : {None, n}, message : menu, addr : {ClientOf(n)},
             send_fails : BOOLEAN] :
        d.send_fails => d.message.name \in GetNames }

\* what receive_commands() can return in one cycle: up to k datagrams
RECURSIVE Batches(_, _, _)
Batches(n, k, menu) ==
    IF k = 0 \/ n > MaxDatagrams THEN {<<>>}
    ELSE {<<>>} \cup { <<d>> \o rest : d \in Datagrams(n, menu),
                                       rest \in Batches(n + 1, k - 1, menu) }

Inputs ==
    [Position_in |-> Position_in, Homed_in |-> Homed_in, InOut_in |-> InOut_in,
     Gripper_data_in |-> Gripper_data_in]

(***************************************************************************)
(* The loop.  Init is the state at the first cycle of a commander whose    *)
(* configuration has auto_home_on_startup off (the queue starts empty);    *)
(* the serial port may or may not have opened.  A start with the startup   *)
(* Home behind it is InitQueue below.                                      *)
(***************************************************************************)
Startup ==
    /\ pc = "start"
    /\ ser_open \in BOOLEAN
    /\ datagrams = 0
    /\ taken = {}
    /\ objects = 0
    /\ command_queue = <<>>
    /\ incoming_command_buffer = <<>>
    /\ last_command_age = "beyond"
    /\ command_id_map = {}
    /\ active_command = NoCommand
    /\ active_command_id = None
    /\ e_stop_active = FALSE
    /\ status_bound = FALSE
    /\ recording_enabled = FALSE
    /\ Command_out = 255
    /\ Speed_out = <<2, 21, 22, 23, 24, 25>>
    /\ Position_out = <<1, 11, 111, 1111, 11111, 10>>
    /\ InOut_out = <<0, 0, 0, 0, 0, 0, 0, 0>>
    /\ Gripper_data_out = <<1, 1, 1, 1, 0, 0>>
    /\ Position_in = Position_in0
    /\ Homed_in = Homed0
    /\ InOut_in = InOut1
    /\ Gripper_data_in = Gripper_data_in0
    /\ acks = <<>>
    /\ responses = <<>>
    /\ last_frame = [Position |-> Zeros6, Speed |-> Zeros6, Command |-> 0,
                     InOut |-> InOut_out, Gripper_data |-> Gripper_data_out]
    /\ cycle = NoObs

Init == Startup /\ CodecIdle

feedback_vars == <<Position_in, Homed_in, InOut_in, Gripper_data_in>>

\* lines 1270-1279: the serial port is closed and cannot be reopened; the
\* loop sleeps a second and starts the next cycle
ReconnectFails ==
    /\ pc = "start"
    /\ ~ser_open
    /\ last_command_age' = "beyond"
    /\ cycle' = NoObs
    /\ UNCHANGED <<pc, ser_open, datagrams, taken, objects, incoming_command_buffer,
                   command_queue, command_id_map, active_command, active_command_id,
                   e_stop_active, status_bound, recording_enabled, Command_out,
                   Speed_out, Position_out, InOut_out, Gripper_data_out,
                   Position_in, Homed_in, InOut_in, Gripper_data_in, acks, responses, last_frame,
                   codec_vars>>

\* lines 1270-1442: (re)connection and network intake
Intake(menu) ==
    /\ pc = "start"
    /\ \E received_commands \in Batches(datagrams + 1, MaxBatch, menu) :
          /\ Store(HandleAll(Load, received_commands, Position_in))
          /\ datagrams' = datagrams + Len(received_commands)
          /\ taken' = taken \cup ({received_commands[i].cmd_id :
                                     i \in 1..Len(received_commands)} \ {None})
    /\ ser_open' = TRUE
    /\ cycle' = NoObs
    /\ pc' = "processing"
    /\ UNCHANGED <<feedback_vars, last_frame, codec_vars>>

NetworkIntake == Intake(Messages)

\* the feedback position of the cycle that put a command in the queue is
\* noted on the command (the one made after the first `made` objects)
Enqueued(L, made, position) ==
    LET q == L.command_queue
    IN  [L EXCEPT !.command_queue =
            [i \in 1..Len(q) |-> IF q[i].obj > made
                                 THEN [q[i] EXCEPT !.enqueued_with = position]
                                 ELSE q[i]]]

\* lines 1447-1523
Processing ==
    /\ pc = "processing"
    /\ LET r == ProcessBuffer(Load)
       IN  /\ Store(Enqueued(r.L, objects, Position_in))
           /\ pc' = IF r.exit = "raise" THEN "exited"
                    ELSE IF r.exit = "continue" THEN "start"
                    ELSE "execution"
    /\ UNCHANGED <<ser_open, datagrams, taken, feedback_vars, last_frame, cycle,
                   codec_vars>>

\* lines 1528-1770
Execution ==
    /\ pc = "execution"
    /\ \E key_e \in BOOLEAN :
          /\ key_e => (e_stop_active /\ At(InOut_in, 4) # 0)
          /\ LET r == Execute(Load, Inputs, key_e)
             IN  /\ Store(r.L)
                 /\ cycle' = Observe(Load, Inputs, r)
                 /\ pc' = IF r.exit = "continue" THEN "start" ELSE "serial"
    /\ UNCHANGED <<ser_open, datagrams, taken, feedback_vars, last_frame, codec_vars>>

\* timer.checkpt(): the cycle takes its 10 ms, or longer; the wall clock
\* decides in which cycle the cooldown of the last dequeue has run out
Tick(age) == {age, "beyond"}

\* lines 1772-1784 and 1799-1813: the frame is packed and written, the
\* inbound bytes are read; a complete inbound frame replaces the feedback
SerialStep(feedbacks) ==
    /\ pc = "serial"
    /\ \E age \in Tick(last_command_age), fb \in feedbacks :
          /\ Store([ResetGripperMode(Load) EXCEPT !.last_command_age = age])
          /\ Position_in' = fb.Position_in
          /\ Homed_in' = fb.Homed_in
          /\ InOut_in' = fb.InOut_in
          /\ Gripper_data_in' = fb.Gripper_data_in
    /\ last_frame' = Pack_data(Load)
    /\ cycle' = [cycle EXCEPT !.frame_sent = TRUE]
    /\ pc' = "start"
    /\ UNCHANGED <<ser_open, datagrams, taken, codec_vars>>

SerialIO == SerialStep(Feedbacks \cup {Inputs})

\* lines 1786-1797: ser.write (written = FALSE) or the read of Get_data
\* (written = TRUE) raises serial.SerialException; Pack_data has returned
\* in both cases
SerialException ==
    /\ pc = "serial"
    /\ \E age \in Tick(last_command_age), written \in BOOLEAN :
          /\ Store([SerialFailure(ResetGripperMode(Load))
                       EXCEPT !.last_command_age = age])
          /\ last_frame' = IF written THEN Pack_data(Load) ELSE last_frame
          /\ cycle' = [cycle EXCEPT !.frame_sent = written]
    /\ ser_open' = FALSE
    /\ pc' = "start"
    /\ UNCHANGED <<datagrams, taken, feedback_vars, codec_vars>>

Next ==
    \/ ReconnectFails
    \/ NetworkIntake
    \/ Processing
    \/ Execution
    \/ SerialIO
    \/ SerialException

Spec == Init /\ [][Next]_vars

(***************************************************************************)
(* The loop with a queue near its capacity.  The start state is the one    *)
(* the loop is in when the startup Home (object 1) has just completed      *)
(* while the clients kept sending untracked commands: a MOVEJOINT, a HOME, *)
(* `heavy` EXECUTETRAJECTORY and then MOVEJOINT up to `size` commands.     *)
(* The robot answers and reports no joint as homed, the E-stop is          *)
(* released.                                                               *)
(***************************************************************************)
Waypoint == <<InAngles>>

QueuedCommand(i, heavy) ==
    IF i = 1 THEN MoveJointCommand(i + 1, InAngles, 20, None)
    ELSE IF i = 2 THEN HomeCommand(i + 1)
    ELSE IF i <= 2 + heavy THEN ExecuteTrajectoryCommand(i + 1, Waypoint, None)
    ELSE MoveJointCommand(i + 1, InAngles, 20, None)

QueueMessages ==
    { Message("STOP", <<>>),
      Message("MOVEJOINT", <<InAngles, 20, None>>),
      Message("EXECUTETRAJECTORY", <<Waypoint, None>>) }

InitQueue ==
    /\ pc = "start"
    /\ ser_open = TRUE
    /\ datagrams = 0
    /\ taken = {}
    /\ \E size \in {max_size - 1, max_size},
          heavy \in {max_trajectory_commands - 1, max_trajectory_commands} :
          /\ objects = size + 1
          /\ command_queue = [i \in 1..size |-> QueuedCommand(i, heavy)]
    /\ incoming_command_buffer = <<>>
    /\ last_command_age = "beyond"
    /\ command_id_map = {}
    /\ active_command = NoCommand
    /\ active_command_id = None
    /\ e_stop_active = FALSE
    /\ status_bound = FALSE
    /\ recording_enabled = FALSE
    /\ Command_out = 255
    /\ Speed_out = Zeros6
    /\ Position_out = <<1, 11, 111, 1111, 11111, 10>>
    /\ InOut_out = <<0, 0, 0, 0, 0, 0, 0, 0>>
    /\ Gripper_data_out = <<1, 1, 1, 1, 0, 0>>
    /\ Position_in = Position_in0
    /\ Homed_in = Homed0
    /\ InOut_in = InOut1
    /\ Gripper_data_in = Gripper_data_in0
    /\ acks = <<>>
    /\ responses = <<>>
    /\ last_frame = [Position |-> Position_out, Speed |-> Zeros6, Command |-> 255,
                     InOut |-> InOut_out, Gripper_data |-> Gripper_data_out]
    /\ cycle = NoObs
    /\ CodecIdle

QueueIntake == Intake(QueueMessages)

QueueSerialIO == SerialStep({Inputs})

NextQueue ==
    \/ QueueIntake
    \/ Processing
    \/ Execution
    \/ QueueSerialIO

SpecQueue == InitQueue /\ [][NextQueue]_vars

(***************************************************************************)
(* Properties of the loop                                                  *)
(***************************************************************************)
Terminal == {"COMPLETED", "FAILED", "CANCELLED", "INVALID", "REJECTED"}

\* the statuses acknowledged for a command id, in the order they were sent
RECURSIVE StatusesOf(_, _)
StatusesOf(a, id) ==
    IF a = <<>> THEN <<>>
    ELSE (IF Head(a).cmd_id = id THEN <<Head(a).status>> ELSE <<>>)
         \o StatusesOf(Tail(a), id)

\* the command with this id is still on its way: buffered, queued or active
InFlight(id) ==
    \/ \E i \in 1..Len(incoming_command_buffer) : incoming_command_buffer[i].cmd_id = id
    \/ \E i \in 1..Len(command_queue) :
          /\ InMap(command_id_map, command_queue[i])
          /\ MapGet(command_id_map, command_queue[i]).cmd_id = id
    \/ active_command # NoCommand /\ active_command_id = id

\* C1: execute_step is called on a command only after its
\* prepare_for_execution (when it defines one) has returned, in the cycle
\* that took it from the queue, and has left is_valid true; a command that
\* is invalid after the preparation is neither made active nor stepped
C1_StepOnlyAfterValidPrepare ==
    /\ cycle.stepped # NoCommand =>
          /\ cycle.stepped.is_valid
          /\ HasPrepare(cycle.stepped) => cycle.stepped.prepared
    /\ active_command # NoCommand =>
          /\ active_command.is_valid
          /\ HasPrepare(active_command) => active_command.prepared
    /\ cycle.popped # NoCommand =>
          /\ HasPrepare(cycle.popped) /\ cycle.popped.is_valid => cycle.popped.prepared
          /\ ~cycle.popped.is_valid =>
                /\ active_command.obj # cycle.popped.obj
                /\ cycle.stepped.obj # cycle.popped.obj
                /\ \A i \in 1..Len(command_queue) :
                      command_queue[i].obj # cycle.popped.obj
    /\ \A i \in 1..Len(command_queue) :
          ~command_queue[i].prepared /\ ~command_queue[i].stepped

\* a MOVEJOINT is prepared and stepped for the first time in the cycle that
\* took it from the queue
C1_Witness ==
    /\ cycle.stepped.kind = "MoveJoint"
    /\ ~cycle.stepped.stepped
    /\ cycle.popped.obj = cycle.stepped.obj
    /\ cycle.stepped.prepared

\* C2: when the E-stop input is asserted at the E-stop check of a cycle
\* while a command is active, a CANCELLED acknowledgment is sent in that
\* cycle for the active command (when tracked) and for every tracked queued
\* command, and the cycle ends with an empty queue and no active command
C2_EstopCancelsActiveAndQueued ==
    (cycle.pressed /\ cycle.had_active) =>
        /\ \A id \in cycle.tracked :
              \E i \in (cycle.acks_before + 1)..Len(acks) :
                  acks[i].cmd_id = id /\ acks[i].status = "CANCELLED"
        /\ command_queue = <<>>
        /\ active_command = NoCommand
        /\ active_command_id = None

\* the E-stop was pressed with one tracked command active and another
\* queued, and the cycle has ended
C2_Witness ==
    /\ cycle.pressed
    /\ cycle.had_active
    /\ Cardinality(cycle.tracked) = 2
    /\ cycle.frame_sent
    /\ pc = "start"

\* C3: every tracked command the loop has taken in gets exactly one
\* terminal acknowledgment: none while it is buffered, queued or active,
\* one once it is not, never two
C3_ExactlyOneTerminalAck ==
    \A id \in taken :
        LET n == Len(SelectSeq(StatusesOf(acks, id), LAMBDA st : st \in Terminal))
        IN  IF InFlight(id) THEN n = 0 ELSE n = 1

\* C4: the acknowledgments of a tracked command that runs to completion
\* are QUEUED, EXECUTING, COMPLETED in this order: EXECUTING never comes
\* before QUEUED, a terminal acknowledgment never before EXECUTING, and
\* nothing follows the terminal acknowledgment
C4_AckOrder ==
    \A id \in taken :
        LET st == StatusesOf(acks, id)
        IN  /\ \A i \in 1..Len(st) : st[i] \in Terminal => i = Len(st)
            /\ \A i \in 1..Len(st) : st[i] = "QUEUED" => i = 1
            /\ \A i \in 1..Len(st) : st[i] = "EXECUTING" => (i = 2 /\ st[1] = "QUEUED")
            /\ (st # <<>> /\ st[1] = "QUEUED" /\ st[Len(st)] = "COMPLETED")
                  => st = <<"QUEUED", "EXECUTING", "COMPLETED">>

\* a tracked command sent to the idle loop has run to completion
C4_Witness ==
    \E id \in taken :
        /\ StatusesOf(acks, id) = <<"QUEUED", "EXECUTING", "COMPLETED">>
        /\ acks[1].cmd_id = id

\* C5: no exception leaves the loop body: a failure in a phase is contained
\* and the loop goes on
C5_NoExceptionLeavesLoop == pc # "exited"

\* C6: in a cycle whose E-stop check finds the input asserted or the flag
\* latched no command is popped, prepared or stepped, and the speeds of the
\* cycle's outbound frame are all zero; a command starts only in a cycle
\* whose check finds the flag clear and the input released
C6_EstopBlocksCommands ==
    /\ cycle.estop =>
          /\ cycle.popped = NoCommand
          /\ cycle.stepped = NoCommand
          /\ active_command = NoCommand
          /\ pc = "serial" => Speed_out = Zeros6
          /\ cycle.frame_sent => last_frame.Speed = Zeros6
    /\ (pc = "serial" /\ (cycle.popped # NoCommand \/ cycle.stepped # NoCommand)) =>
          /\ ~e_stop_active
          /\ At(InOut_in, 4) # 0

\* the flag is latched, the input released, a command waits in the buffer
\* and the cycle's frame has gone out
C6_Witness ==
    /\ cycle.estop
    /\ ~cycle.pressed
    /\ cycle.frame_sent
    /\ incoming_command_buffer # <<>>

(***************************************************************************)
(* Properties of the queue                                                 *)
(***************************************************************************)
\* C7: the loop adds a command to the queue only when can_add returned true
\* for it; every step of the loop leaves the queue as it is, appends one
\* admitted command, removes the head, or clears the queue, so that after
\* N adds and M pops without a clear the size is N - M
C7_AddOnlyWhenAllowed ==
    [][ \/ command_queue' = command_queue
        \/ /\ Len(command_queue') = Len(command_queue) + 1
           /\ SubSeq(command_queue', 1, Len(command_queue)) = command_queue
           /\ can_add(command_queue, command_queue'[Len(command_queue')]).ok
        \/ /\ command_queue # <<>>
           /\ Len(command_queue') = Len(command_queue) - 1
           /\ command_queue' = Tail(command_queue)
        \/ command_queue' = <<>> ]_vars

\* the queue is full again after a pop and an admission
C7_Witness ==
    /\ Len(command_queue) = max_size
    /\ command_queue[1].obj > 2
    /\ command_queue[max_size].obj > max_size + 1

\* C8: the queue never holds more than max_size commands nor more than
\* max_trajectory_commands trajectory-heavy commands
C8_QueueWithinCaps ==
    /\ Len(command_queue) <= max_size
    /\ trajectory_count(command_queue) <= max_trajectory_commands

\* both caps are reached and a command has been turned away
C8_Witness ==
    /\ Len(command_queue) = max_size
    /\ trajectory_count(command_queue) = max_trajectory_commands
    /\ \E i \in 1..Len(acks) : acks[i].status = "REJECTED"

\* the processing phase is about to offer the head of the buffer, a valid
\* EXECUTETRAJECTORY, to a queue that holds max_trajectory_commands
\* trajectory-heavy commands
OffersHeavyAtLimit ==
    /\ pc = "processing"
    /\ incoming_command_buffer # <<>>
    /\ last_command_age = "beyond"
    /\ ~e_stop_active
    /\ Head(incoming_command_buffer).message.name = "EXECUTETRAJECTORY"
    /\ parse(Head(incoming_command_buffer).message, objects + 1).command_obj.is_valid
    /\ trajectory_count(command_queue) = max_trajectory_commands

\* C9: a trajectory-heavy command offered to a queue that holds
\* max_trajectory_commands of them is rejected as a whole: can_add is false,
\* with the trajectory limit as the reason unless the queue is full as
\* well, a tracked sender gets REJECTED with can_add's reason, an untracked
\* one nothing, and the queue and the id map are unchanged
C9_HeavyRejectedWhole ==
    [][ OffersHeavyAtLimit =>
            LET b == Head(incoming_command_buffer)
                r == can_add(command_queue, parse(b.message, objects + 1).command_obj)
            IN  /\ ~r.ok
                /\ Len(command_queue) < max_size => r.reason = TrajectoryLimitReason
                /\ command_queue' = command_queue
                /\ command_id_map' = command_id_map
                /\ acks' = IF b.cmd_id # None
                           THEN Append(acks, Ack(b.cmd_id, "REJECTED", r.reason, b.addr))
                           ELSE acks ]_vars

\* a tracked EXECUTETRAJECTORY has been rejected for the trajectory limit
\* and the queue holds as many heavy commands as before
C9_Witness ==
    /\ \E i \in 1..Len(acks) :
          acks[i].status = "REJECTED" /\ acks[i].details = TrajectoryLimitReason
    /\ trajectory_count(command_queue) = max_trajectory_commands
    /\ Len(command_queue) < max_size

\* C10: commands become active in the order of their admission (the order
\* in which the objects were made): the queue is in that order, and the
\* active command and the command popped in this cycle are older than
\* every queued command
C10_Fifo ==
    /\ \A i \in 1..(Len(command_queue) - 1) :
          command_queue[i].obj < command_queue[i + 1].obj
    /\ \A i \in 1..Len(command_queue) :
          /\ active_command # NoCommand => active_command.obj < command_queue[i].obj
          /\ cycle.popped # NoCommand => cycle.popped.obj < command_queue[i].obj

\* the second command of the queue is active while commands admitted later
\* wait behind it
C10_Witness ==
    /\ active_command.obj = 3
    /\ Len(command_queue) >= 2
    /\ command_queue[Len(command_queue)].obj > max_size + 1

(***************************************************************************)
(* The loop with tracked commands waiting in the queue.  The start state   *)
(* is the one the loop is in when the startup Home (object 1) waits for    *)
(* the joints to report home and the clients have sent three MOVEJOINT     *)
(* (objects 2, 3, 4), some of them tracked: the tracked ones were answered *)
(* QUEUED and are in command_id_map.  Their ids, 11.., are those of        *)
(* datagrams sent before the ones counted by `datagrams`.                  *)
(***************************************************************************)
WaitingHome ==
    [HomeCommand(1) EXCEPT !.state = "WAITING_FOR_HOMED", !.start_cmd_counter = 0,
                           !.timeout_counter = HomeTimeoutCycles - 1,
                           !.stepped = TRUE]

EarlierId(o) == 9 + o

ClearMessages ==
    { Message("STOP", <<>>),
      Message("MOVEJOINT", <<InAngles, 20, None>>) }

InitClear ==
    /\ pc = "start"
    /\ ser_open = TRUE
    /\ datagrams = 0
    /\ objects = 4
    /\ command_queue = [i \in 1..3 |-> MoveJointCommand(i + 1, InAngles, 20, None)]
    /\ \E tracked \in SUBSET {2, 3, 4} :
          /\ taken = {EarlierId(o) : o \in tracked}
          /\ command_id_map = {[obj |-> o, cmd_id |-> EarlierId(o), addr |-> ClientOf(o)] :
                                  o \in tracked}
          /\ acks = LET q == SelectSeq(<<2, 3, 4>>, LAMBDA o : o \in tracked)
                    IN  [i \in 1..Len(q) |->
                            Ack(EarlierId(q[i]), "QUEUED",
                                "Command added to queue", ClientOf(q[i]))]
    /\ incoming_command_buffer = <<>>
    /\ last_command_age = "beyond"
    /\ active_command = WaitingHome
    /\ active_command_id = None
    /\ e_stop_active = FALSE
    /\ status_bound = FALSE
    /\ recording_enabled = FALSE
    /\ Command_out = 255
    /\ Speed_out = Zeros6
    /\ Position_out = <<1, 11, 111, 1111, 11111, 10>>
    /\ InOut_out = <<0, 0, 0, 0, 0, 0, 0, 0>>
    /\ Gripper_data_out = <<1, 1, 1, 1, 0, 0>>
    /\ Position_in = Position_in0
    /\ Homed_in = Homed0
    /\ InOut_in = InOut1
    /\ Gripper_data_in = Gripper_data_in0
    /\ responses = <<>>
    /\ last_frame = [Position |-> Position_out, Speed |-> Zeros6, Command |-> 255,
                     InOut |-> InOut_out, Gripper_data |-> Gripper_data_out]
    /\ cycle = NoObs
    /\ CodecIdle

NextClear ==
    \/ Intake(ClearMessages)
    \/ Processing
    \/ Execution
    \/ SerialStep(Feedbacks \cup {Inputs})

SpecClear == InitClear /\ [][NextClear]_vars

\* the ids and the addresses of the tracked commands of the queue, head first
QueuedTracked ==
    LET q == SelectSeq(command_queue, LAMBDA c : InMap(command_id_map, c))
    IN  [i \in 1..Len(q) |-> [cmd_id |-> MapGet(command_id_map, q[i]).cmd_id,
                              addr |-> MapGet(command_id_map, q[i]).addr]]

\* the acknowledgments a step sends
NewAcks == SubSeq(acks', Len(acks) + 1, Len(acks'))

\* C11: when STOP or a pressed E-stop clears the queue, the queue is empty
\* afterwards and the CANCELLED acknowledgments of the queued tracked
\* commands are sent once per command, to its client, oldest command first.
C11_ClearCancelsInQueueOrder ==
    [][ ( /\ command_queue # <<>>
          /\ command_queue' = <<>>
          /\ \/ pc = "start"
             \/ pc = "execution" /\ At(InOut_in, 4) = 0 )
        => LET ids == {QueuedTracked[i].cmd_id : i \in 1..Len(QueuedTracked)}
               cancelled == SelectSeq(NewAcks, LAMBDA a : a.cmd_id \in ids)
           IN  /\ command_id_map' = {}
               /\ Len(cancelled) = Len(QueuedTracked)
               /\ \A i \in 1..Len(cancelled) :
                     /\ cancelled[i].status = "CANCELLED"
                     /\ cancelled[i].cmd_id = QueuedTracked[i].cmd_id
                     /\ cancelled[i].addr = QueuedTracked[i].addr ]_vars

\* a STOP and a pressed E-stop have each cancelled two queued commands
C11_Witness ==
    \E i, j \in 1..Len(acks) :
        /\ i < j
        /\ acks[i].cmd_id # acks[j].cmd_id
        /\ acks[i].details = acks[j].details
        /\ acks[i].details \in {"Queue cleared by STOP", "E-Stop activated"}
        /\ acks[i].status = "CANCELLED"
        /\ acks[j].status = "CANCELLED"
        /\ command_queue = <<>>

(***************************************************************************)
(* The loop fed with MOVEJOINT messages that give a duration and a speed,  *)
(* one of the two, or neither.  The robot answers and the E-stop is        *)
(* released.                                                               *)
(***************************************************************************)
MoveJointMessages ==
    { Message("MOVEJOINT", <<InAngles, 20, 50>>),
      Message("MOVEJOINT", <<InAngles, None, None>>),
      Message("MOVEJOINT", <<InAngles, 20, None>>),
      Message("MOVEJOINT", <<InAngles, None, 50>>) }

InitMoveJoint == Init /\ ser_open

NextMoveJoint ==
    \/ Intake(MoveJointMessages)
    \/ Processing
    \/ Execution
    \/ SerialStep({Inputs})

SpecMoveJoint == InitMoveJoint /\ [][NextMoveJoint]_vars

\* the command objects the loop holds
Held ==
    {command_queue[i] : i \in 1..Len(command_queue)}
        \cup (IF active_command = NoCommand THEN {} ELSE {active_command})

\* C12: a MoveJoint built with both a duration and a speed, or with
\* neither, is invalid from its construction on and is never queued or run.
C12_BothOrNeitherInvalid ==
    \A c \in Held :
        (c.kind = "MoveJoint" /\ ((c.duration = None) <=> (c.velocity_percent = None)))
            => ~c.is_valid

(***************************************************************************)
(* The loop fed with ELECTRICGRIPPER messages.  The start state is the     *)
(* startup state with the port open; the gripper mode byte of              *)
(* Gripper_data_out, the argument Pack_data reads and resets, is drawn     *)
(* from 0 (operation), 1 (calibrate) and 2 (clear error).                  *)
(***************************************************************************)
GripperModes == {0, 1, 2}

GripperMessages ==
    { Message("ELECTRICGRIPPER", <<"calibrate", 0, 0, 0>>),
      Message("ELECTRICGRIPPER", <<"MOVE", 3, 100, 500>>) }

InitGripper ==
    /\ pc = "start"
    /\ ser_open = TRUE
    /\ datagrams = 0
    /\ taken = {}
    /\ objects = 0
    /\ command_queue = <<>>
    /\ incoming_command_buffer = <<>>
    /\ last_command_age = "beyond"
    /\ command_id_map = {}
    /\ active_command = NoCommand
    /\ active_command_id = None
    /\ e_stop_active = FALSE
    /\ status_bound = FALSE
    /\ recording_enabled = FALSE
    /\ Command_out = 255
    /\ Speed_out = <<2, 21, 22, 23, 24, 25>>
    /\ Position_out = <<1, 11, 111, 1111, 11111, 10>>
    /\ InOut_out = <<0, 0, 0, 0, 0, 0, 0, 0>>
    /\ \E mode \in GripperModes : Gripper_data_out = <<1, 1, 1, 1, mode, 0>>
    /\ Position_in = Position_in0
    /\ Homed_in = Homed0
    /\ InOut_in = InOut1
    /\ Gripper_data_in = Gripper_data_in0
    /\ acks = <<>>
    /\ responses = <<>>
    /\ last_frame = [Position |-> Zeros6, Speed |-> Zeros6, Command |-> 0,
                     InOut |-> InOut_out, Gripper_data |-> <<1, 1, 1, 1, 0, 0>>]
    /\ cycle = NoObs
    /\ CodecIdle

NextGripper ==
    \/ Intake(GripperMessages)
    \/ Processing
    \/ Execution
    \/ SerialStep({Inputs})
    \/ SerialException

SpecGripper == InitGripper /\ [][NextGripper]_vars

\* C13: the frame that is packed carries the stored gripper mode; a stored
\* mode of 1 or 2 is 0 right after the packing, any other stored mode stays;
\* between two packings only the execute_step of a gripper command changes
\* the stored mode, so the frame after a 1 or a 2 carries 0 unless a command
\* has set the mode again.
C13_GripperModeOneShot ==
    [][ /\ pc = "serial" =>
            LET mode == At(Gripper_data_out, 4)
            IN  /\ cycle'.frame_sent => At(last_frame'.Gripper_data, 4) = mode
                /\ At(Gripper_data_out', 4) = IF mode \in {1, 2} THEN 0 ELSE mode
        /\ (pc # "serial" /\ At(Gripper_data_out', 4) # At(Gripper_data_out, 4)) =>
            /\ pc = "execution"
            /\ cycle'.stepped.kind = "Gripper" ]_vars

\* the frame just written carries the calibrate mode that the running
\* gripper command has set, and the stored mode is back to 0
C13_Witness ==
    /\ pc = "start"
    /\ cycle.frame_sent
    /\ At(last_frame.Gripper_data, 4) = 1
    /\ At(Gripper_data_out, 4) = 0
    /\ active_command.kind = "Gripper"
    /\ active_command.state = "WAITING_CALIBRATION"

(***************************************************************************)
(* The byte conversions of the frames, as functions: a value of a 3-byte   *)
(* field (positions and speeds) or of a 2-byte field (gripper values) is   *)
(* split as Pack_data does and fused as Unpack_data does.  The values are  *)
(* the powers of two of the field's range, negated or not, and their       *)
(* neighbours.                                                             *)
(***************************************************************************)
WireSpread == 1

FieldMin(width) == -(2^(8 * width - 1))
FieldMax(width) == 2^(8 * width - 1) - 1

WireValues(width) ==
    { x \in { s * (2^k) + d : s \in {-1, 1}, k \in 0..(8 * width - 1),
                              d \in (-WireSpread)..WireSpread } :
        FieldMin(width) <= x /\ x <= FieldMax(width) }

InitBytes ==
    /\ Startup
    /\ ser_open
    /\ scanner = ScannerStart
    /\ tracker = TrackerStart
    /\ bridge = BridgeStart
    /\ \E width \in {2, 3} : \E x \in WireValues(width) :
          wire = [NoWire EXCEPT !.stage = "value", !.width = width, !.value = x]

\* Pack_data: position_split[1:4] of a position or speed, [2:4] of a
\* gripper value
SplitValue ==
    /\ wire.stage = "value"
    /\ wire' = [wire EXCEPT
                  !.stage = "wire",
                  !.bytes = IF wire.width = 3
                            THEN SubSeq(Split_2_3_bytes(wire.value), 2, 4)
                            ELSE SubSeq(Split_2_3_bytes(wire.value), 3, 4)]
    /\ UNCHANGED <<pc, ser_open, datagrams, taken, objects, incoming_command_buffer,
                   last_command_age, command_queue, command_id_map, active_command,
                   active_command_id, e_stop_active, status_bound, recording_enabled,
                   Command_out, Speed_out, Position_out, InOut_out, Gripper_data_out,
                   Position_in, Homed_in, InOut_in, Gripper_data_in, acks, responses, last_frame,
                   cycle, scanner, tracker, bridge>>

\* Unpack_data: b'\x00' + the three bytes to Fuse_3_bytes, b'\x00' + b'\x00'
\* + the two bytes to Fuse_2_bytes
FuseBytes ==
    /\ wire.stage = "wire"
    /\ wire' = [wire EXCEPT
                  !.stage = "fused",
                  !.fused = IF wire.width = 3
                            THEN Fuse_3_bytes(<<0>> \o wire.bytes)
                            ELSE Fuse_2_bytes(<<0, 0>> \o wire.bytes)]
    /\ UNCHANGED <<pc, ser_open, datagrams, taken, objects, incoming_command_buffer,
                   last_command_age, command_queue, command_id_map, active_command,
                   active_command_id, e_stop_active, status_bound, recording_enabled,
                   Command_out, Speed_out, Position_out, InOut_out, Gripper_data_out,
                   Position_in, Homed_in, InOut_in, Gripper_data_in, acks, responses, last_frame,
                   cycle, scanner, tracker, bridge>>

NextBytes ==
    \/ SplitValue
    \/ FuseBytes

SpecBytes == InitBytes /\ [][NextBytes]_vars

\* C14: a value of the signed range of its field comes back unchanged from
\* the split into wire bytes and the fuse: 3 bytes, big endian, for
\* -2^23 .. 2^23 - 1, and the low 2 bytes for -2^15 .. 2^15 - 1.
C14_SplitFuseRoundTrip ==
    /\ wire.stage \in {"wire", "fused"} =>
          /\ Len(wire.bytes) = wire.width
          /\ \A i \in 1..Len(wire.bytes) : wire.bytes[i] \in 0..255
    /\ wire.stage = "fused" => wire.fused = wire.value

\* the most negative position has made the round trip
C14_Witness ==
    /\ wire.stage = "fused"
    /\ wire.width = 3
    /\ wire.value = -(2^23)
    /\ wire.bytes = <<128, 0, 0>>
    /\ wire.fused = wire.value

(***************************************************************************)
(* The inbound scanner, byte by byte.  The robot's bytes are the start     *)
(* byte, the two end bytes, the length of a whole frame and 0; the byte    *)
(* after three start bytes is one of the lengths 0, 1, 2 and that of a     *)
(* whole frame; within a frame's payload, before its last two bytes, the   *)
(* bytes are 0.                                                            *)
(***************************************************************************)
ScanBytes == {start_cond_byte, end_cond1_byte, end_cond2_byte, FrameBytes, 0}
ScanLengths == ScanBytes \ {start_cond_byte}

InitScanner ==
    /\ Startup
    /\ ser_open
    /\ scanner = ScannerStart
    /\ wire = NoWire
    /\ tracker = TrackerStart
    /\ bridge = BridgeStart

\* one iteration of the while loop of Get_data
ReadByte ==
    /\ scanner.raised = ""
    /\ \E b \in ScanBytes :
          /\ (/\ scanner.good_start # 1
              /\ scanner.start_cond1 = 1
              /\ scanner.start_cond2 = 1
              /\ scanner.start_cond3 = 1) => b \in ScanLengths
          /\ (/\ scanner.good_start = 1
              /\ scanner.data_counter \notin {scanner.data_len - 2, scanner.data_len - 1})
                => b = 0
          /\ LET r == ScanByte(scanner, b, Inputs)
             IN  /\ scanner' = r.g
                 /\ Position_in' = r.fb.Position_in
                 /\ Homed_in' = r.fb.Homed_in
                 /\ InOut_in' = r.fb.InOut_in
    /\ UNCHANGED <<pc, ser_open, datagrams, taken, objects, incoming_command_buffer,
                   last_command_age, command_queue, command_id_map, active_command,
                   active_command_id, e_stop_active, status_bound, recording_enabled,
                   Command_out, Speed_out, Position_out, InOut_out, Gripper_data_out,
                   Gripper_data_in, acks, responses, last_frame, cycle, wire, tracker, bridge>>

NextScanner == ReadByte

SpecScanner == InitScanner /\ [][NextScanner]_vars

\* the scanner is scanning for a start: every flag and counter is clear
Scanning(g) ==
    /\ g.good_start = 0
    /\ g.start_cond1 = 0
    /\ g.start_cond2 = 0
    /\ g.start_cond3 = 0
    /\ g.data_len = 0
    /\ g.data_counter = 0

\* C15: a byte is taken as the length only right after three start bytes;
\* the scanner then collects exactly `length` bytes; Unpack_data is called
\* only when the last two of them are the end bytes; after a wrong start
\* byte or wrong end bytes the scanner is scanning for a start again and the
\* feedback arrays are as before.
C15_ScannerFraming ==
    [][ LET b == scanner'.input_byte
            collecting == scanner.good_start = 1
        IN  /\ (~collecting /\ scanner'.good_start = 1) =>
                  /\ scanner.run = 3
                  /\ scanner'.data_len = b
            /\ collecting => scanner.data_counter < scanner.data_len
            /\ (collecting /\ scanner'.good_start # 1) =>
                  scanner.data_counter + 1 = scanner.data_len
            /\ scanner'.unpacked =>
                  /\ collecting
                  /\ scanner.data_counter + 1 = scanner.data_len
                  /\ scanner.data_len >= 2
                  /\ b = end_cond2_byte
                  /\ scanner.input_byte = end_cond1_byte
            /\ (~collecting /\ b # start_cond_byte /\ scanner'.good_start # 1) =>
                  Scanning(scanner')
            /\ (collecting /\ scanner.data_counter + 1 = scanner.data_len
                           /\ ~scanner'.unpacked) =>
                  Scanning(scanner')
            /\ ~scanner'.unpacked => UNCHANGED feedback_vars ]_vars

(***************************************************************************)
(* The loop at a startup with auto_home_on_startup: the queue holds the    *)
(* startup Home (object 1), no client sends anything, and the robot        *)
(* reports its homed flags as it likes: none set, all set, the six joint   *)
(* flags set, or all but one joint's.                                      *)
(***************************************************************************)
StartupWith(queue, count) ==
    /\ pc = "start"
    /\ ser_open = TRUE
    /\ datagrams = 0
    /\ taken = {}
    /\ objects = count
    /\ command_queue = queue
    /\ incoming_command_buffer = <<>>
    /\ last_command_age = "beyond"
    /\ command_id_map = {}
    /\ active_command = NoCommand
    /\ active_command_id = None
    /\ e_stop_active = FALSE
    /\ status_bound = FALSE
    /\ recording_enabled = FALSE
    /\ Command_out = 255
    /\ Speed_out = <<2, 21, 22, 23, 24, 25>>
    /\ Position_out = <<1, 11, 111, 1111, 11111, 10>>
    /\ InOut_out = <<0, 0, 0, 0, 0, 0, 0, 0>>
    /\ Gripper_data_out = <<1, 1, 1, 1, 0, 0>>
    /\ Position_in = Position_in0
    /\ Homed_in = Homed0
    /\ InOut_in = InOut1
    /\ Gripper_data_in = Gripper_data_in0
    /\ acks = <<>>
    /\ responses = <<>>
    /\ last_frame = [Position |-> Zeros6, Speed |-> Zeros6, Command |-> 0,
                     InOut |-> InOut_out, Gripper_data |-> Gripper_data_out]
    /\ cycle = NoObs
    /\ CodecIdle

HomedFlags ==
    { Homed0, Homed1, <<1, 1, 1, 1, 1, 1, 0, 0>>, <<1, 1, 1, 1, 1, 0, 1, 1>> }

HomeFeedbacks ==
    [Position_in : {Position_in0}, Homed_in : HomedFlags, InOut_in : {InOut1},
     Gripper_data_in : {Gripper_data_in0}]

InitHome == StartupWith(<<HomeCommand(1)>>, 1)

NextHome ==
    \/ Intake({})
    \/ Processing
    \/ Execution
    \/ SerialStep(HomeFeedbacks)

SpecHome == InitHome /\ [][NextHome]_vars

AllHomed(flags) == \A j \in 0..5 : At(flags, j) = 1

\* what the claims about Home say of one execute_step call on a Home
\* command: c is the command before the call, after the active command
\* left by the cycle (NoCommand when the call returned True);
\* timeout_finishes tells whether a call in WAITING_FOR_UNHOMED may finish
\* the command when its timeout counter runs out
HomeStepRule(c, after, timeout_finishes) ==
    LET finished == after = NoCommand
        timed_out == timeout_finishes /\ c.timeout_counter - 1 <= 0
    IN  /\ ~c.stepped => (c.state = "START" /\ c.start_cmd_counter = HomeStartCycles)
        /\ c.state \in {"START", "WAITING_FOR_UNHOMED", "WAITING_FOR_HOMED"}
        /\ c.state = "START" =>
              /\ c.start_cmd_counter \in 1..HomeStartCycles
              /\ Command_out' = 100
              /\ ~finished
              /\ after.start_cmd_counter = c.start_cmd_counter - 1
              /\ after.state = IF c.start_cmd_counter = 1 THEN "WAITING_FOR_UNHOMED"
                               ELSE "START"
        /\ c.state = "WAITING_FOR_UNHOMED" =>
              /\ Command_out' = 255
              /\ finished <=> timed_out
              /\ ~finished =>
                    after.state = IF AllHomed(Homed_in) THEN "WAITING_FOR_UNHOMED"
                                  ELSE "WAITING_FOR_HOMED"
        /\ c.state = "WAITING_FOR_HOMED" =>
              /\ Command_out' = 255
              /\ finished <=> AllHomed(Homed_in)
              /\ ~finished => after.state = "WAITING_FOR_HOMED"

\* C16 as stated: Home goes through START, WAITING_FOR_UNHOMED and
\* WAITING_FOR_HOMED in this order, one state at a time and never back; it
\* sends 100 in exactly its first 10 cycles, then 255 until one of the six
\* homed flags is 0, and it finishes only in WAITING_FOR_HOMED, in the first
\* cycle in which the six flags are 1.
C16_HomeSequence ==
    [][ (pc = "execution" /\ cycle'.stepped.kind = "Home") =>
            HomeStepRule(cycle'.stepped, active_command', FALSE) ]_vars

\* C16, amended: the same, except that a call in WAITING_FOR_UNHOMED finishes
\* the command when it brings the timeout counter (2000 calls in that state)
\* to 0, whatever the homed flags are.
C16_HomeSequenceOrTimeout ==
    [][ (pc = "execution" /\ cycle'.stepped.kind = "Home") =>
            HomeStepRule(cycle'.stepped, active_command', TRUE) ]_vars

\* the Home command has just finished from WAITING_FOR_HOMED with the six
\* flags set
C16_Witness ==
    /\ pc = "serial"
    /\ cycle.stepped.kind = "Home"
    /\ cycle.stepped.state = "WAITING_FOR_HOMED"
    /\ active_command = NoCommand
    /\ AllHomed(Homed_in)
    /\ Command_out = 255

(***************************************************************************)
(* Digital outputs: the commander starts with an empty queue and clients   *)
(* send SET_IO for output 1, output 2 and an output that does not exist.   *)
(***************************************************************************)
IOMessages ==
    { Message("SET_IO", <<1, 1>>),
      Message("SET_IO", <<1, 0>>),
      Message("SET_IO", <<2, 1>>),
      Message("SET_IO", <<3, 1>>) }

InitIO == StartupWith(<<>>, 0)

NextIO ==
    \/ Intake(IOMessages)
    \/ Processing
    \/ Execution
    \/ SerialStep({Inputs})

SpecIO == InitIO /\ [][NextIO]_vars

\* C17: a SET_IO command is stepped in the cycle that pops it; that one
\* execute_step call writes the commanded state to InOut_out[2] for output 1
\* and to InOut_out[3] for output 2, leaves the other seven entries alone and
\* finishes the command; no other step of the loop changes InOut_out, so
\* the bit keeps its value until another SET_IO is stepped.
C17_SetIOSetsOneBit ==
    [][ /\ (pc = "execution" /\ cycle'.popped.kind = "SetIO") =>
              /\ cycle'.stepped = cycle'.popped
              /\ active_command' = NoCommand
              /\ cycle'.popped.output \in {1, 2}
              /\ InOut_out' =
                    [InOut_out EXCEPT ![IF cycle'.popped.output = 1 THEN 3 ELSE 4] =
                                          IF cycle'.popped.io_state THEN 1 ELSE 0]
        /\ InOut_out' # InOut_out =>
              (pc = "execution" /\ cycle'.popped.kind = "SetIO") ]_vars

\* SET_IO for output 1 with state 1 has just been stepped: the bit at index
\* 2 is set, the command is gone
C17_Witness ==
    /\ pc = "serial"
    /\ cycle.stepped.kind = "SetIO"
    /\ cycle.stepped.output = 1
    /\ cycle.stepped.io_state
    /\ InOut_out = <<0, 0, 1, 0, 0, 0, 0, 0>>
    /\ active_command = NoCommand

\* C18 (under Spec): every acknowledgment sent carries the id of a datagram
\* that came with one, never None; the processing phase acknowledges only
\* under the id of the datagram it dequeues and enters a command in
\* command_id_map only under that id, and the execution phase acknowledges
\* only under ids that were in command_id_map or active at its start; a
\* command that came without an id is therefore never acknowledged.
C18_NoAckWithoutId ==
    [][ /\ \A i \in 1..Len(acks') :
              acks'[i].cmd_id # None /\ acks'[i].cmd_id \in taken'
        /\ \A e \in command_id_map' : e.cmd_id # None /\ e.cmd_id \in taken'
        /\ pc = "processing" =>
              /\ \A i \in (Len(acks) + 1)..Len(acks') :
                    /\ Head(incoming_command_buffer).cmd_id # None
                    /\ acks'[i].cmd_id = Head(incoming_command_buffer).cmd_id
              /\ \A e \in command_id_map' \ command_id_map :
                    e.cmd_id = Head(incoming_command_buffer).cmd_id
        /\ pc = "execution" =>
              /\ \A i \in (Len(acks) + 1)..Len(acks') :
                    \/ acks'[i].cmd_id \in cycle'.tracked
                    \/ \E j \in 1..Len(incoming_command_buffer) :
                          incoming_command_buffer[j].cmd_id = acks'[i].cmd_id
              /\ command_id_map' \subseteq command_id_map
              /\ active_command_id' # None =>
                    \E e \in command_id_map : /\ e.obj = active_command'.obj
                                              /\ e.cmd_id = active_command_id' ]_vars

\* a command that came without an id has been queued, popped and stepped to
\* its end, and nothing was acknowledged
C18_Witness ==
    /\ pc = "serial"
    /\ datagrams > 0
    /\ taken = {}
    /\ cycle.stepped.kind = "MoveJoint"
    /\ active_command = NoCommand
    /\ acks = <<>>

\* what the claims about the intake buffer say of one step of the loop: a
\* processing phase takes at most the head of the buffer, only after the
\* cooldown of the last dequeue has run out, and starts the cooldown anew;
\* the cooldown runs out only while the loop waits (the cycle's timer, the
\* sleep before a reconnection attempt); outside the
\* processing phase the buffered commands stay, in their order, new ones
\* behind them - or, where flushed is allowed, the E-stop branch empties
\* the buffer
BufferStepRule(flush_allowed) ==
    /\ (pc = "processing" /\ incoming_command_buffer' # incoming_command_buffer) =>
          /\ last_command_age = "beyond"
          /\ last_command_age' = "within"
          /\ incoming_command_buffer' = Tail(incoming_command_buffer)
    /\ (pc = "processing" /\ incoming_command_buffer' = incoming_command_buffer) =>
          last_command_age' = last_command_age
    /\ (last_command_age = "within" /\ last_command_age' = "beyond") =>
          (pc = "serial" \/ (pc = "start" /\ ~ser_open))
    /\ pc # "processing" =>
          \/ /\ Len(incoming_command_buffer') >= Len(incoming_command_buffer)
             /\ SubSeq(incoming_command_buffer', 1, Len(incoming_command_buffer))
                   = incoming_command_buffer
          \/ /\ flush_allowed
             /\ pc = "execution"
             /\ cycle'.pressed
             /\ incoming_command_buffer' = <<>>

\* C19 as stated: at most one buffered command is dequeued per cooldown
\* window, and the commands not yet dequeued stay buffered in arrival order.
C19_OneDequeuePerCooldown == [][BufferStepRule(FALSE)]_vars

\* C19, amended: the same, except that the E-stop branch of a cycle in which
\* the E-stop input is asserted discards the whole buffer.
C19_OneDequeuePerCooldownOrFlush == [][BufferStepRule(TRUE)]_vars

\* the processing phase has left a buffered command where it is because the
\* cooldown of the last dequeue has not run out
C19_Witness ==
    /\ pc = "execution"
    /\ ~e_stop_active
    /\ last_command_age = "within"
    /\ incoming_command_buffer # <<>>

(***************************************************************************)
(* Preparation: clients send MOVEJOINT commands while the robot's feedback *)
(* position changes from frame to frame.                                   *)
(***************************************************************************)
Position_moved == <<41, 42, 43, 44, 45, 46>>

PrepareMessages == { Message("MOVEJOINT", <<InAngles, 20, None>>) }

PrepareFeedbacks ==
    [Position_in : {Position_in0, Position_moved}, Homed_in : {Homed0},
     InOut_in : {InOut1}, Gripper_data_in : {Gripper_data_in0}]

InitPrepare == StartupWith(<<>>, 0)

NextPrepare ==
    \/ Intake(PrepareMessages)
    \/ Processing
    \/ Execution
    \/ SerialStep(PrepareFeedbacks)

SpecPrepare == InitPrepare /\ [][NextPrepare]_vars

\* C20: the execution phase that pops a command which defines
\* prepare_for_execution calls it once, with the feedback position of that
\* cycle; a queued command has not been prepared, and the active command
\* has been prepared once and is not prepared again by a later cycle.
C20_PreparedOnceWithLivePosition ==
    [][ /\ (pc = "execution" /\ cycle'.popped # NoCommand
                             /\ HasPrepare(cycle'.popped)) =>
              /\ cycle'.popped.prepare_calls = 1
              /\ cycle'.popped.prepared_with = Position_in
        /\ \A i \in 1..Len(command_queue') : command_queue'[i].prepare_calls = 0
        /\ (active_command' # NoCommand /\ HasPrepare(active_command')) =>
              /\ active_command'.prepare_calls = 1
              /\ active_command'.obj = active_command.obj =>
                    active_command'.prepared_with = active_command.prepared_with
              /\ active_command'.obj # active_command.obj =>
                    (pc = "execution" /\ active_command'.obj = cycle'.popped.obj) ]_vars

\* a MOVEJOINT that was queued while the feedback position was one array has
\* just been popped and prepared with another, that of the popping cycle
C20_Witness ==
    /\ pc = "serial"
    /\ cycle.popped.kind = "MoveJoint"
    /\ cycle.popped.prepare_calls = 1
    /\ cycle.popped.enqueued_with # Position_in
    /\ cycle.popped.prepared_with = Position_in
    /\ active_command.obj = cycle.popped.obj

\* what a query must leave alone: the queue, the intake buffer, the active
\* command, the E-stop flag and the commanded outputs
QueryFrame(L) ==
    <<L.command_queue, L.incoming_command_buffer, L.active_command,
      L.active_command_id, L.command_id_map, L.e_stop_active, L.Command_out,
      L.Speed_out, L.Position_out, L.InOut_out, L.Gripper_data_out>>

GetMessages == {m \in Messages : m.name \in GetNames}

C22_SerialErrorClearsTracking ==
    [][ (pc = "serial" /\ ~ser_open') =>
            /\ pc' = "start"
            /\ active_command' = NoCommand
            /\ active_command_id' = None
            /\ active_command_id # None =>
                  /\ Len(acks') = Len(acks) + 1
                  /\ acks'[Len(acks')].cmd_id = active_command_id
                  /\ acks'[Len(acks')].status = "FAILED"
            /\ active_command # NoCommand =>
                  ~InMap(command_id_map', active_command) ]_vars

\* the loop is a `while True` that nothing but an exception leaves: its
\* cycles keep coming
SpecHomeFair == SpecHome /\ WF_vars(NextHome)

\* C23 (under SpecHomeFair): whatever the robot reports, a command that is
\* active is finished, and no longer active, after finitely many cycles - a
\* Home whose homing has started included.
C23_EveryCommandFinishes ==
    [](active_command # NoCommand => <>(active_command = NoCommand))

\* C24 (under Spec): every acknowledgment of a tracked command is sent to
\* the address of the client that submitted the command (the n-th datagram,
\* which carries the id n, comes from ClientOf(n)).
C24_AckToSubmitter ==
    \A i \in 1..Len(acks) : acks[i].addr = ClientOf(acks[i].cmd_id)

\* C25 (under Spec): a cycle that starts with the serial link open goes
\* through network intake, the rate-limited dequeue, the E-stop check with
\* the command lifecycle, and the serial I/O, in this order and skipping
\* none, and its frame is written once, in the serial phase (an exception
\* that leaves the loop, and a write that fails, aside).
C25_CycleRunsAllPhases ==
    [][ /\ (pc = "start" /\ pc' # "start") => pc' = "processing"
        /\ pc = "processing" => pc' \in {"execution", "exited"}
        /\ pc = "execution" => (pc' = "serial" /\ ~cycle'.frame_sent)
        /\ pc = "serial" => (pc' = "start" /\ (ser_open' => cycle'.frame_sent))
        /\ pc # "serial" => last_frame' = last_frame ]_vars

\* the objects of the commands that are queued or active
LiveObjects ==
    {command_queue[i].obj : i \in 1..Len(command_queue)}
        \cup (IF active_command # NoCommand THEN {active_command.obj} ELSE {})

\* C26 (under Spec): a command that has left the queue and the active slot -
\* cancelled by STOP or by the E-stop, finished, failed, or dropped by a
\* serial error - is never queued or active again, and execute_step is
\* called only on the command that is active or is popped in that cycle,
\* never on one that has finished; no finished command is queued or active.
C26_EndedCommandsStayEnded ==
    [][ /\ \A o \in LiveObjects' : o \in LiveObjects \/ o > objects
        /\ (pc = "execution" /\ cycle'.stepped # NoCommand) =>
              /\ cycle'.stepped.obj \in LiveObjects
              /\ ~cycle'.stepped.is_finished
              /\ active_command # NoCommand => cycle'.stepped.obj = active_command.obj
              /\ active_command = NoCommand => cycle'.stepped.obj = cycle'.popped.obj
        /\ (pc # "execution" \/ cycle'.stepped = NoCommand) =>
              (active_command' # NoCommand => active_command' = active_command)
        /\ active_command' # NoCommand => ~active_command'.is_finished
        /\ \A i \in 1..Len(command_queue') : ~command_queue'[i].is_finished ]_vars

\* the first client's command has run to its end and the second command is
\* being stepped
C26_Witness ==
    /\ pc = "serial"
    /\ cycle.stepped.obj = 2
    /\ active_command.obj = 2
    /\ \E i \in 1..Len(acks) : acks[i].cmd_id = 1 /\ acks[i].status = "COMPLETED"

\* C27 (under Spec): the queue loses its head to the execution phase only in
\* a cycle that found no command active, and then exactly one command; the
\* other steps that shorten the queue empty it (STOP, E-stop); the active
\* command is a single object, not at the same time in the queue.
C27_PopOnlyWhenIdle ==
    [][ /\ (pc = "execution" /\ cycle'.popped # NoCommand) =>
              /\ active_command = NoCommand
              /\ command_queue # <<>>
              /\ cycle'.popped.obj = Head(command_queue).obj
              /\ command_queue' = Tail(command_queue)
        /\ (pc = "execution" /\ cycle'.popped = NoCommand) =>
              (command_queue' = command_queue \/ command_queue' = <<>>)
        /\ (pc = "execution" /\ active_command # NoCommand) =>
              cycle'.popped = NoCommand
        /\ Len(command_queue') < Len(command_queue) =>
              \/ pc = "execution" /\ Len(command_queue') = Len(command_queue) - 1
              \/ command_queue' = <<>>
        /\ active_command' # NoCommand =>
              \A i \in 1..Len(command_queue') :
                  command_queue'[i].obj # active_command'.obj ]_vars

\* a command is active and another waits in the queue: the execution phase
\* has stepped the one and popped nothing
C27_Witness ==
    /\ pc = "serial"
    /\ active_command # NoCommand
    /\ command_queue # <<>>
    /\ cycle.stepped.obj = active_command.obj
    /\ cycle.popped = NoCommand

(***************************************************************************)
(* The tracker's threads: the listener receives acknowledgments of any id  *)
(* and status, a caller tracks commands and asks for their status; the     *)
(* commander's loop stands still.                                          *)
(***************************************************************************)
AckStatuses == {"QUEUED", "COMPLETED"}

loop_vars ==
    <<pc, ser_open, datagrams, taken, objects, incoming_command_buffer,
      last_command_age, command_queue, command_id_map, active_command,
      active_command_id, e_stop_active, status_bound, recording_enabled,
      Command_out, Speed_out, Position_out, InOut_out, Gripper_data_out,
      Position_in, Homed_in, InOut_in, Gripper_data_in, acks, responses, last_frame, cycle,
      scanner, wire, bridge>>

InitTracker ==
    /\ StartupWith(<<>>, 0)
    /\ scanner = ScannerStart
    /\ wire = NoWire
    /\ tracker = TrackerStart
    /\ bridge = BridgeStart

ListenerReceives ==
    /\ tracker.listener = "recvfrom"
    /\ \E cmd_id \in 1..MaxTracked, status \in AckStatuses :
          tracker' = ListenerReceived(tracker, cmd_id, status)
    /\ UNCHANGED loop_vars

ListenerLocks ==
    /\ tracker.listener \in {"lock_update", "lock_cleanup"}
    /\ tracker.lock = "free"
    /\ tracker' = [Locked(tracker, "listener") EXCEPT
                      !.listener = IF @ = "lock_update" THEN "update" ELSE "cleanup"]
    /\ UNCHANGED loop_vars

ListenerUpdates ==
    /\ tracker.listener = "update"
    /\ tracker' = ListenerUpdate(tracker)
    /\ UNCHANGED loop_vars

ListenerChecksSize ==
    /\ tracker.listener = "len_check"
    /\ tracker' = ListenerSizeCheck(tracker)
    /\ UNCHANGED loop_vars

ListenerCleans ==
    /\ tracker.listener = "cleanup"
    /\ \E expired \in SUBSET (DOMAIN tracker.command_history) :
          tracker' = CleanupOldEntries(tracker, expired)
    /\ UNCHANGED loop_vars

CallerTracks ==
    /\ tracker.caller = "idle"
    /\ tracker.issued < MaxTracked
    /\ tracker' = [tracker EXCEPT !.caller = "lock_track", !.issued = @ + 1,
                                  !.cmd_id = tracker.issued + 1]
    /\ UNCHANGED loop_vars

CallerAsks ==
    /\ tracker.caller = "idle"
    /\ \E cmd_id \in 1..MaxTracked :
          tracker' = [tracker EXCEPT !.caller = "lock_status", !.cmd_id = cmd_id]
    /\ UNCHANGED loop_vars

CallerLocks ==
    /\ tracker.caller \in {"lock_track", "lock_status"}
    /\ tracker.lock = "free"
    /\ tracker' = [Locked(tracker, "caller") EXCEPT
                      !.caller = IF @ = "lock_track" THEN "track" ELSE "status"]
    /\ UNCHANGED loop_vars

CallerInserts ==
    /\ tracker.caller = "track"
    /\ tracker' = TrackInsert(tracker)
    /\ UNCHANGED loop_vars

CallerReads ==
    /\ tracker.caller = "status"
    /\ tracker' = StatusRead(tracker)
    /\ UNCHANGED loop_vars

NextTracker ==
    \/ ListenerReceives
    \/ ListenerLocks
    \/ ListenerUpdates
    \/ ListenerChecksSize
    \/ ListenerCleans
    \/ CallerTracks
    \/ CallerAsks
    \/ CallerLocks
    \/ CallerInserts
    \/ CallerReads

SpecTracker == InitTracker /\ [][NextTracker]_vars

\* C28 (under SpecTracker): whoever reads or writes command_history holds
\* the tracker's lock at that moment.
C28_HistoryOnlyUnderLock ==
    tracker.access.by # "" => tracker.access.holder = tracker.access.by

\* C29 (under SpecHome): the tenth START call leaves Home in
\* WAITING_FOR_UNHOMED with 2000 calls to go; a call in that state that reads
\* the six homed flags as 1 sends idle (255), counts one call and keeps the
\* state, and the call that finds one call left - the 2000th, no earlier
\* call having read a flag as 0 - finishes the command, which so never
\* enters WAITING_FOR_HOMED.
C29_HomeTimesOutAfter2000Calls ==
    [][ (pc = "execution" /\ cycle'.stepped.kind = "Home") =>
            LET c == cycle'.stepped
                after == active_command'
            IN  /\ (c.state = "START" /\ c.start_cmd_counter = 1) =>
                      /\ after # NoCommand
                      /\ after.state = "WAITING_FOR_UNHOMED"
                      /\ after.timeout_counter = HomeTimeoutCycles
                /\ (c.state = "WAITING_FOR_UNHOMED" /\ AllHomed(Homed_in)) =>
                      /\ c.timeout_counter \in 1..HomeTimeoutCycles
                      /\ Command_out' = 255
                      /\ IF c.timeout_counter = 1
                         THEN after = NoCommand
                         ELSE /\ after # NoCommand
                              /\ after.state = "WAITING_FOR_UNHOMED"
                              /\ after.timeout_counter = c.timeout_counter - 1 ]_vars

\* the 2000th call in WAITING_FOR_UNHOMED, the flags still set, has just
\* finished the Home command
C29_Witness ==
    /\ pc = "serial"
    /\ cycle.stepped.kind = "Home"
    /\ cycle.stepped.state = "WAITING_FOR_UNHOMED"
    /\ cycle.stepped.timeout_counter = 1
    /\ AllHomed(Homed_in)
    /\ active_command = NoCommand
    /\ Command_out = 255

(***************************************************************************)
(* Timeouts: the queue holds a Home command and a gripper move to a        *)
(* position the gripper never reports; either may be tracked.  The robot   *)
(* reports its joints as homed or as not homed, in any cycle.              *)
(***************************************************************************)
FarPosition == 100

TimeoutQueue ==
    <<HomeCommand(1), GripperCommand(2, "move", FarPosition, 100, 500)>>

TimeoutFeedbacks ==
    [Position_in : {Position_in0}, Homed_in : {Homed0, Homed1}, InOut_in : {InOut1},
     Gripper_data_in : {Gripper_data_in0}]

InitTimeout ==
    /\ pc = "start"
    /\ ser_open = TRUE
    /\ datagrams = 0
    /\ objects = 2
    /\ command_queue = TimeoutQueue
    /\ \E tracked \in SUBSET {1, 2} :
          /\ taken = {EarlierId(o) : o \in tracked}
          /\ command_id_map = {[obj |-> o, cmd_id |-> EarlierId(o), addr |-> ClientOf(o)] :
                                  o \in tracked}
          /\ acks = LET q == SelectSeq(<<1, 2>>, LAMBDA o : o \in tracked)
                    IN  [i \in 1..Len(q) |->
                            Ack(EarlierId(q[i]), "QUEUED",
                                "Command added to queue", ClientOf(q[i]))]
    /\ incoming_command_buffer = <<>>
    /\ last_command_age = "beyond"
    /\ active_command = NoCommand
    /\ active_command_id = None
    /\ e_stop_active = FALSE
    /\ status_bound = FALSE
    /\ recording_enabled = FALSE
    /\ Command_out = 255
    /\ Speed_out = Zeros6
    /\ Position_out = <<1, 11, 111, 1111, 11111, 10>>
    /\ InOut_out = <<0, 0, 0, 0, 0, 0, 0, 0>>
    /\ Gripper_data_out = <<1, 1, 1, 1, 0, 0>>
    /\ Position_in = Position_in0
    /\ Homed_in = Homed1
    /\ InOut_in = InOut1
    /\ Gripper_data_in = Gripper_data_in0
    /\ responses = <<>>
    /\ last_frame = [Position |-> Position_out, Speed |-> Zeros6, Command |-> 255,
                     InOut |-> InOut_out, Gripper_data |-> Gripper_data_out]
    /\ cycle = NoObs
    /\ CodecIdle

NextTimeout ==
    \/ Intake({})
    \/ Processing
    \/ Execution
    \/ SerialStep(TimeoutFeedbacks)

SpecTimeout == InitTimeout /\ [][NextTimeout]_vars

\* the execute_step call on c is the one that finds the timeout of c run out:
\* the 2000th call on a Home that still waits for a flag to drop, the 1000th
\* call on a gripper command
EndsByTimeout(c) ==
    /\ c # NoCommand
    /\ c.timeout_counter = 1
    /\ \/ c.kind = "Home" /\ c.state = "WAITING_FOR_UNHOMED"
       \/ c.kind = "Gripper" /\ c.is_valid

\* C30 (under SpecTimeout): the cycle in which a tracked command is ended by
\* its timeout sends one acknowledgment for it, with the status FAILED.
C30_TimeoutEndsFailed ==
    [][ (pc = "execution" /\ EndsByTimeout(cycle'.stepped) /\ active_command_id # None) =>
            /\ active_command' = NoCommand
            /\ Len(acks') = Len(acks) + 1
            /\ acks'[Len(acks')].cmd_id = active_command_id
            /\ acks'[Len(acks')].status = "FAILED" ]_vars

(***************************************************************************)
(* Gripper moves: the queue holds one move to MoveTarget; the gripper      *)
(* reports, in any cycle, a position at or around the edges of the         *)
(* tolerance, or its position at startup.                                  *)
(***************************************************************************)
MoveTarget == 20
MoveTolerance == 5

GripperPositions ==
    { At(Gripper_data_in0, 1),
      MoveTarget - MoveTolerance - 1, MoveTarget - MoveTolerance,
      MoveTarget + MoveTolerance, MoveTarget + MoveTolerance + 1 }

MoveFeedbacks ==
    [Position_in : {Position_in0}, Homed_in : {Homed0}, InOut_in : {InOut1},
     Gripper_data_in : {SetAt(Gripper_data_in0, 1, p) : p \in GripperPositions}]

InitMove == StartupWith(<<GripperCommand(1, "move", MoveTarget, 100, 500)>>, 1)

NextMove ==
    \/ Intake({})
    \/ Processing
    \/ Execution
    \/ SerialStep(MoveFeedbacks)

SpecMove == InitMove /\ [][NextMove]_vars

\* the gripper command byte: bit 7 set, bit 6 the move request, bit 5 the
\* E-stop input asserted, bit 4 set
GripperByte(move, estop_pressed) ==
    128 + (IF move THEN 64 ELSE 0) + (IF estop_pressed THEN 32 ELSE 0) + 16

\* what the claims about a gripper move say of one execute_step call on the
\* move c, after the active command left by the cycle; timeout_ends tells
\* whether the call that finds the timeout of c run out ends the command
\* without looking at the position and without writing
GripperMoveRule(c, after, timeout_ends) ==
    LET finished == after = NoCommand
        timed_out == timeout_ends /\ c.timeout_counter = 1
        reached == Abs(At(Gripper_data_in, 1) - c.target_position) <= MoveTolerance
        pressed == At(InOut_in, 4) = 0
    IN  /\ finished <=> (timed_out \/ reached)
        /\ timed_out => Gripper_data_out' = Gripper_data_out
        /\ ~timed_out =>
              /\ At(Gripper_data_out', 0) = c.target_position
              /\ At(Gripper_data_out', 1) = c.speed
              /\ At(Gripper_data_out', 2) = c.current
              /\ At(Gripper_data_out', 4) = 0
              /\ At(Gripper_data_out', 5) = At(Gripper_data_out, 5)
              /\ At(Gripper_data_out', 3) = GripperByte(~finished, pressed)

GripperMoveStepped ==
    /\ pc = "execution"
    /\ cycle'.stepped.kind = "Gripper"
    /\ cycle'.stepped.action = "move"
    /\ cycle'.stepped.is_valid

\* C31 as stated: every execute_step call on a gripper move writes the
\* target position, the speed and the current with mode 0; the call that
\* first reads a position within 5 of the target, and no other call,
\* finishes the command, and it writes the idle command byte.
C31_GripperMove ==
    [][ GripperMoveStepped =>
            GripperMoveRule(cycle'.stepped, active_command', FALSE) ]_vars

\* C31, amended: the same, except that the 1000th call ends the command
\* whatever the position is, and writes nothing.
C31_GripperMoveOrTimeout ==
    [][ GripperMoveStepped =>
            GripperMoveRule(cycle'.stepped, active_command', TRUE) ]_vars

\* a move that was not in place in earlier calls has just finished in a call
\* that read a position at the edge of the tolerance
C31_Witness ==
    /\ pc = "serial"
    /\ cycle.stepped.kind = "Gripper"
    /\ cycle.stepped.stepped
    /\ cycle.stepped.state = "WAIT_FOR_POSITION"
    /\ cycle.stepped.timeout_counter > 1
    /\ Abs(At(Gripper_data_in, 1) - MoveTarget) = MoveTolerance
    /\ active_command = NoCommand
    /\ At(Gripper_data_out, 3) = GripperByte(FALSE, FALSE)

(***************************************************************************)
(* Trajectories: the queue holds two commands out of MoveJoint commands    *)
(* with a duration of one, two and three control intervals and with a      *)
(* speed, and ExecuteTrajectory commands of one and three waypoints; the   *)
(* robot's feedback position changes from frame to frame.                  *)
(***************************************************************************)
MaxSteps == 3

NearAngles == <<9, 0, 0, 0, 0, -9>>

TrajectoryCommands(o) ==
    { MoveJointCommand(o, NearAngles, n * INTERVAL_S, None) : n \in 1..MaxSteps }
        \cup { MoveJointCommand(o, NearAngles, None, 50),
               ExecuteTrajectoryCommand(o, <<NearAngles>>, None),
               ExecuteTrajectoryCommand(o, [w \in 1..MaxSteps |-> SetAt(NearAngles, 1, w)],
                                        None) }

InitTrajectory ==
    \E first \in TrajectoryCommands(1), second \in TrajectoryCommands(2) :
        StartupWith(<<first, second>>, 2)

NextTrajectory ==
    \/ Intake({})
    \/ Processing
    \/ Execution
    \/ SerialStep(PrepareFeedbacks)

SpecTrajectory == InitTrajectory /\ [][NextTrajectory]_vars

\* C32 (under SpecTrajectory): on a MoveJoint or an ExecuteTrajectory with a
\* prepared trajectory of N >= 1 steps the first execute_step call finds the
\* cursor at 0; a call that finds it at k - 1 < N writes step k to
\* Position_out, moves the cursor to k and leaves the command active; the
\* call that finds it at N ends the command, sets Position_out to the
\* feedback position and the speeds to 0; the cursor is never beyond N.
C32_TrajectoryStepByStep ==
    [][ ( /\ pc = "execution"
          /\ cycle'.stepped.kind \in {"MoveJoint", "ExecuteTrajectory"}
          /\ cycle'.stepped.is_valid
          /\ ~cycle'.stepped.is_finished ) =>
            LET c == cycle'.stepped
                N == Len(c.trajectory_steps)
                k == c.command_step + 1
            IN  /\ N >= 1
                /\ k \in 1..(N + 1)
                /\ ~c.stepped => k = 1
                /\ Speed_out' = Zeros6
                /\ k <= N =>
                      /\ Position_out' = c.trajectory_steps[k]
                      /\ active_command' # NoCommand
                      /\ active_command'.obj = c.obj
                      /\ active_command'.command_step = k
                      /\ active_command'.trajectory_steps = c.trajectory_steps
                /\ k = N + 1 =>
                      /\ active_command' = NoCommand
                      /\ Position_out' = Position_in ]_vars

\* call 4 on a trajectory of three steps has just ended the command and has
\* set Position_out to the position the robot reported last
C32_Witness ==
    /\ pc = "serial"
    /\ cycle.stepped.kind = "ExecuteTrajectory"
    /\ Len(cycle.stepped.trajectory_steps) = MaxSteps
    /\ cycle.stepped.command_step = MaxSteps
    /\ active_command = NoCommand
    /\ Position_in = Position_moved
    /\ Position_out = Position_moved

(***************************************************************************)
(* The USB bridge's two threads, one step of either at a time; clients     *)
(* send up to MaxTasks datagrams, tracked or not.                          *)
(***************************************************************************)
BridgeNames == {"MOVEJOINT", "ELECTRICGRIPPER", "DELAY", "STOP", "CLEAR_ESTOP", "GET_STATUS"}

bridge_rest ==
    <<pc, ser_open, datagrams, taken, objects, incoming_command_buffer,
      last_command_age, command_queue, command_id_map, active_command,
      active_command_id, e_stop_active, status_bound, recording_enabled,
      Command_out, Speed_out, Position_out, InOut_out, Gripper_data_out,
      Position_in, Homed_in, InOut_in, Gripper_data_in, acks, responses, last_frame, cycle,
      scanner, wire, tracker>>

InitBridge == StartupWith(<<>>, 0)

MainReceives ==
    /\ bridge.main = "select"
    /\ bridge.received < MaxTasks
    /\ \E name \in BridgeNames, tracked \in BOOLEAN :
          bridge' = BridgeReceive(bridge, IF tracked THEN bridge.received + 1 ELSE None,
                                  name)
    /\ UNCHANGED bridge_rest

MainAcks ==
    /\ bridge.main = "ack"
    /\ bridge' = BridgeQueuedAck(bridge)
    /\ UNCHANGED bridge_rest

WorkerGets ==
    /\ bridge.worker = "get"
    /\ bridge.task_queue # <<>>
    /\ bridge' = WorkerGet(bridge)
    /\ UNCHANGED bridge_rest

WorkerAcksExecuting ==
    /\ bridge.worker = "executing"
    /\ bridge' = WorkerExecutingAck(bridge)
    /\ UNCHANGED bridge_rest

WorkerDispatches ==
    /\ bridge.worker = "dispatch"
    /\ \E ok \in BOOLEAN : bridge' = WorkerDispatch(bridge, ok)
    /\ UNCHANGED bridge_rest

WorkerAcksFinal ==
    /\ bridge.worker = "done"
    /\ bridge' = WorkerFinalAck(bridge)
    /\ UNCHANGED bridge_rest

NextBridge ==
    \/ MainReceives
    \/ MainAcks
    \/ WorkerGets
    \/ WorkerAcksExecuting
    \/ WorkerDispatches
    \/ WorkerAcksFinal

SpecBridge == InitBridge /\ [][NextBridge]_vars

Urgent(task) == task.name \in {"STOP", "CLEAR_ESTOP"}

\* C33 (under SpecBridge): a STOP or a CLEAR_ESTOP that has been received is
\* executed before any motion, gripper or delay task - the worker never
\* calls dispatch_command on such a task while a STOP or a CLEAR_ESTOP is
\* waiting in task_queue.
C33_StopNotBehindTasks ==
    [][ (bridge.worker = "dispatch" /\ bridge'.worker = "done" /\ ~Urgent(bridge.task)) =>
            \A i \in 1..Len(bridge.task_queue) : ~Urgent(bridge.task_queue[i]) ]_vars

\* C38 (under SpecBridge): in the order in which the acknowledgments are
\* sent, the EXECUTING of a tracked task comes after the QUEUED of that task.
C38_QueuedBeforeExecuting ==
    \A i \in 1..Len(bridge.acks) :
        bridge.acks[i].status = "EXECUTING" =>
            \E j \in 1..(i - 1) :
                /\ bridge.acks[j].cmd_id = bridge.acks[i].cmd_id
                /\ bridge.acks[j].status = "QUEUED"

(***************************************************************************)
(* STOP and the intake buffer: two MOVEJOINT datagrams of one batch, the   *)
(* first tracked and the second tracked or not, wait in the intake buffer; *)
(* every datagram that arrives from now on is a STOP.                      *)
(***************************************************************************)
StopMessages == { Message("STOP", <<>>) }

Buffered(cmd_id, o) ==
    [cmd_id |-> cmd_id, message |-> Message("MOVEJOINT", <<InAngles, 20, None>>),
     addr |-> ClientOf(o)]

InitStop ==
    /\ pc = "start"
    /\ ser_open = TRUE
    /\ datagrams = 0
    /\ objects = 0
    /\ command_queue = <<>>
    /\ \E second \in {None, EarlierId(2)} :
          /\ incoming_command_buffer = <<Buffered(EarlierId(1), 1), Buffered(second, 2)>>
          /\ taken = {EarlierId(1), second} \ {None}
    /\ command_id_map = {}
    /\ acks = <<>>
    /\ last_command_age \in {"within", "beyond"}
    /\ active_command = NoCommand
    /\ active_command_id = None
    /\ e_stop_active = FALSE
    /\ status_bound = FALSE
    /\ recording_enabled = FALSE
    /\ Command_out = 255
    /\ Speed_out = Zeros6
    /\ Position_out = <<1, 11, 111, 1111, 11111, 10>>
    /\ InOut_out = <<0, 0, 0, 0, 0, 0, 0, 0>>
    /\ Gripper_data_out = <<1, 1, 1, 1, 0, 0>>
    /\ Position_in = Position_in0
    /\ Homed_in = Homed0
    /\ InOut_in = InOut1
    /\ Gripper_data_in = Gripper_data_in0
    /\ responses = <<>>
    /\ last_frame = [Position |-> Position_out, Speed |-> Zeros6, Command |-> 255,
                     InOut |-> InOut_out, Gripper_data |-> Gripper_data_out]
    /\ cycle = NoObs
    /\ CodecIdle

NextStop ==
    \/ Intake(StopMessages)
    \/ Processing
    \/ Execution
    \/ SerialStep({Inputs})

SpecStop == InitStop /\ [][NextStop]_vars

\* C34 (under SpecStop, where the commands of the run were all received
\* before the first STOP): once a STOP has been handled no command is taken
\* from the queue and started.
C34_NothingStartsAfterStop ==
    [][ (pc = "execution" /\ cycle'.popped # NoCommand) => datagrams = 0 ]_vars

\* C35 (under SpecScanner): Unpack_data is called only at the end of a frame
\* of the whole inbound layout, and only then do the feedback arrays change;
\* a shorter frame that ends in the two end bytes leaves them as they are.
C35_UnpackOnlyWholeFrames ==
    [][ /\ scanner'.unpacked => scanner.data_len = FrameBytes
        /\ scanner.data_len # FrameBytes => UNCHANGED feedback_vars ]_vars

\* C36 (under SpecScanner): while the scanner collects a frame it has stored
\* fewer bytes than max(data_len, 1), so that the byte that makes up that
\* number sends it back to scanning for a start; data_counter stays below
\* the 255 slots of data_buffer and no store raises IndexError.
C36_ScannerComesBack ==
    /\ scanner.data_counter < BufferSize
    /\ scanner.raised # "IndexError"
    /\ scanner.good_start = 1 =>
          scanner.data_counter < (IF scanner.data_len > 1 THEN scanner.data_len ELSE 1)

\* C37 (under Spec): at the end of a cycle every entry of command_id_map
\* belongs to a command that is in the queue or active.
C37_MapOnlyForLiveCommands ==
    pc = "start" => \A e \in command_id_map : e.obj \in LiveObjects

(***************************************************************************)
(* wait_for_completion: the listener receives acknowledgments, of any      *)
(* status of the closed set, of the commands tracked so far; a caller      *)
(* tracks commands and waits for them; the wall clock decides after which  *)
(* poll the wait runs out of time.  With at most MaxWaited commands the    *)
(* history stays within history_size and is never cleaned.                 *)
(***************************************************************************)
MaxWaited == 1

ClosedStatuses ==
    {"QUEUED", "EXECUTING", "COMPLETED", "FAILED", "CANCELLED", "INVALID", "REJECTED"}

TerminalStatuses == {"COMPLETED", "FAILED", "CANCELLED", "INVALID", "REJECTED"}

InitWait == InitTracker

WaitListenerReceives ==
    /\ tracker.listener = "recvfrom"
    /\ \E cmd_id \in 1..tracker.issued, status \in ClosedStatuses :
          tracker' = ListenerReceived(tracker, cmd_id, status)
    /\ UNCHANGED loop_vars

WaitCallerTracks ==
    /\ tracker.caller = "idle"
    /\ tracker.issued < MaxWaited
    /\ tracker' = [tracker EXCEPT !.caller = "lock_track", !.issued = @ + 1,
                                  !.cmd_id = tracker.issued + 1]
    /\ UNCHANGED loop_vars

CallerWaits ==
    /\ tracker.caller = "idle"
    /\ \E cmd_id \in 1..tracker.issued :
          tracker' = [tracker EXCEPT !.caller = "wait_lock", !.cmd_id = cmd_id,
                                     !.returned = NoReturn]
    /\ UNCHANGED loop_vars

WaitLocks ==
    /\ tracker.caller \in {"wait_lock", "last_lock"}
    /\ tracker.lock = "free"
    /\ tracker' = [Locked(tracker, "caller") EXCEPT
                      !.caller = IF @ = "wait_lock" THEN "wait_poll" ELSE "last_poll"]
    /\ UNCHANGED loop_vars

WaitPolls ==
    /\ tracker.caller = "wait_poll"
    /\ tracker' = WaitPoll(tracker)
    /\ UNCHANGED loop_vars

WaitSleeps ==
    /\ tracker.caller = "wait_sleep"
    /\ \E in_time \in BOOLEAN :
          tracker' = [tracker EXCEPT !.caller = IF in_time THEN "wait_lock"
                                                ELSE "last_lock"]
    /\ UNCHANGED loop_vars

WaitReadsLast ==
    /\ tracker.caller = "last_poll"
    /\ tracker' = WaitLast(tracker)
    /\ UNCHANGED loop_vars

NextWait ==
    \/ WaitListenerReceives
    \/ ListenerLocks
    \/ ListenerUpdates
    \/ ListenerChecksSize
    \/ WaitCallerTracks
    \/ CallerLocks
    \/ CallerInserts
    \/ CallerWaits
    \/ WaitLocks
    \/ WaitPolls
    \/ WaitSleeps
    \/ WaitReadsLast

SpecWait == InitWait /\ [][NextWait]_vars

\* C40 (under SpecWait): the poll of wait_for_completion that finds a
\* terminal status of the closed set stored for the command - COMPLETED,
\* FAILED, CANCELLED, INVALID or REJECTED - returns it as completed; the
\* wait does not go on to its timeout.
C40_WaitReturnsOnTerminal ==
    [][ ( /\ tracker.caller = "wait_poll"
          /\ tracker'.caller # "wait_poll"
          /\ tracker.cmd_id \in DOMAIN tracker.command_history
          /\ tracker.command_history[tracker.cmd_id] \in TerminalStatuses ) =>
            /\ tracker'.caller = "idle"
            /\ tracker'.returned =
                  [how |-> "completed",
                   status |-> tracker.command_history[tracker.cmd_id]] ]_vars

\* the move request of a gripper command byte (bit 6)
MoveBit(byte) == (byte \div 64) % 2

\* C39 (under SpecMove): the execute_step call that ends a gripper move,
\* on its position or on its timeout, leaves the gripper command byte of
\* Gripper_data_out with the move bit cleared, and so does the frame
\* written in that cycle.
C39_MoveEndsIdle ==
    [][ /\ (GripperMoveStepped /\ active_command' = NoCommand) =>
              MoveBit(At(Gripper_data_out', 3)) = 0
        /\ ( /\ pc = "serial"
             /\ cycle.stepped.kind = "Gripper"
             /\ active_command = NoCommand
             /\ cycle'.frame_sent ) =>
              MoveBit(At(last_frame'.Gripper_data, 3)) = 0 ]_vars

====
